---- MODULE Spec2Model ----
(***************************************************************************)
(* Device/session registration core of the iris client:                    *)
(*   - the three memoized service singletons (DelegateManagerService,      *)
(*     DeviceManagerService, SessionManagerService),                       *)
(*   - DeviceRegistrationService (isDeviceRegistered, registerCurrent-     *)
(*     Device, addDeviceToExistingList),                                   *)
(*   - the session event handlers (dmEventHandler, DelegateDevice).        *)
(* JavaScript is single threaded: every action below is the code that runs *)
(* between two suspension points (await) of one async function.            *)
(***************************************************************************)
EXTENDS Integers, FiniteSets, Sequences, TLC

\* number of concurrent top-level callers (hooks, listeners) of the services
NCallers == 2
Callers == 1..NCallers

\* ---------------------------------------------------------------- values
NoKey == "none"
StoredKey == "k0"      \* identity key persisted by an earlier run
CredKey == "kc"        \* devicePublicKey of pairing credentials
Sibling == "A"         \* another device of the same owner
GenKey(c) == "g" \o ToString(c)   \* the key init() of manager c generates

\* the time a registry found at start-up or on the relay was last changed
FirstTime == 1
\* a registry: the active devices, the revoked ones and their revokedAt
Reg(a, r) == [active |-> a, revoked |-> r, at |-> [k \in r |-> FirstTime]]
EmptyReg == Reg({}, {})

Obj(i) == [k |-> "obj", id |-> i]      \* a promise already resolved with manager i
Task(i) == [k |-> "task", id |-> i]    \* the promise of initialization task i
NoH == [k |-> "none", id |-> 0]

VARIABLES
  loggedIn,      \* useUserStore.getState().publicKey is set
  creds,         \* useDelegateDeviceStore credentials: "none" | "inactive" | "active"
  storeKey,      \* v1/device-manager/identity-public-key in the key-value store
  generated,     \* history: identity keys persisted by init() in this run
  delInstance,   \* DelegateManagerService.delegateManagerInstance (0 = null)
  delPromise,    \* DelegateManagerService.initPromise (0 = null, else its task)
  delTask,       \* position of each initializeDelegateManager() task
  delObj,        \* the DelegateManager each task constructed
  devInstance,   \* DeviceManagerService.deviceManagerInstance
  devPromise,    \* DeviceManagerService.initPromise
  devTask,       \* position of each initializeDeviceManager() task
  devObj,        \* the DeviceManager each task constructed (its registry cache)
  storeReg,      \* registry cache persisted in the key-value store
  relay,         \* registry documents the relay holds for the owner (0 or 1)
  sesInstance,   \* SessionManagerService.sessionManagerInstance
  sesPromise,    \* SessionManagerService.initPromise
  sesTask,       \* position of each initializeSessionManager() task
  sesInited,     \* SessionManager.init() of task c has completed
  tdev, tdel,    \* the promises task c of the session service awaits
  op, pc,        \* each caller's current operation and position in it
  hnd,           \* the promise the caller awaits
  dm, gm,        \* deviceManager / delegateManager locals of the caller
  arg,           \* remoteApplicationKeys argument or fetch result (set of 0 or 1)
  ret,           \* how the caller's operation settled
  retMgr,        \* manager a get...() call resolved to, and whether its init() was done
  fetched,       \* the operation opened a remote registry subscription
  pub,           \* registry snapshot being published by the caller (set of 0 or 1)
  regOk,         \* history: registerCurrentDevice completed and no revoke since
  fresh,         \* history: the run started with no local and no remote data
  hk,            \* which session event listener is attached, on which device type
  store,         \* usePrivateMessagesStore: the (conversation id, event) pairs upserted
  groups,        \* useGroupsStore: the record held for the group id
  last,          \* history: the last event delivered and what the listener did with it
  hook,          \* useChatInitState: its React state, its effect's closure, the browser
  runs,          \* useChatInitState: the checkState runs that opened a subscription
  dl,            \* useDeviceList: its effect (setup position, unsubscribe, subscription)
  rl,            \* useDeviceRegistration: its remote-list effect
  readable,      \* whether reads of the key-value store succeed
  outbox,        \* delegate device: the messages handed to the SessionManager to send
  copies,        \* delegate device: per call, the state of the copy sent to the owner
  clock,         \* the time (Date.now()) a revocation is stamped with
  view,          \* the device list screen shown: its entries and what it was built from
  pchat,         \* PrivateChats.ts: its delegate manager, the stored key pair, its calls
  old            \* history: per service, the initializations begun before its last reset,
                 \* and the attach calls waiting at the last listener cleanup

mgrVars == <<creds, storeKey, generated, delInstance, delPromise, delTask,
             delObj, devInstance, devPromise, devTask, devObj, storeReg, relay,
             sesInstance, sesPromise, sesTask, sesInited, tdev, tdel>>
hookVars == <<hook, runs>>
uiVars == <<hookVars, dl, rl>>
sendVars == <<outbox, copies>>
evVars == <<hk, store, groups, last, uiVars, readable, sendVars, clock, view, pchat, old>>
svcVars_noUi_noSend == <<loggedIn, mgrVars, hk, store, groups, last, readable, clock, view, pchat, old>>
svcVars_noUi == <<loggedIn, mgrVars, hk, store, groups, last, readable, sendVars, clock, view, pchat, old>>
svcVars == <<loggedIn, mgrVars, evVars>>
callVars == <<op, pc, hnd, dm, gm, arg, ret, retMgr, fetched, pub, regOk, fresh>>
vars == <<svcVars, callVars>>

delVars == <<storeKey, generated, delInstance, delPromise, delTask, delObj>>
devVars == <<devInstance, devPromise, devTask, devObj, storeReg>>
sesVars == <<sesInstance, sesPromise, sesTask, sesInited, tdev, tdel>>
envVars == <<loggedIn, creds, evVars>>

NewDel == [inited |-> FALSE, key |-> NoKey]
NewDev == [inited |-> FALSE, active |-> {}, revoked |-> {}, at |-> EmptyReg.at]
NoRet == [id |-> 0, inited |-> FALSE]

\* keys and tags of session events
OwnerKey == "O"        \* the owner's public key
DeviceKey == "D"       \* this device's own delegate identity key
PeerKey == "P"         \* another user
MutedKey == "M"        \* a user the owner has muted
NoTag == "none"
GroupId == "G"
Event(pk, p, l, kind) == [pubkey |-> pk, p |-> p, l |-> l, kind |-> kind]
Events ==
  {Event(pk, p, l, kind) : pk \in {OwnerKey, DeviceKey, PeerKey},
                           p \in {NoTag, OwnerKey, PeerKey},
                           l \in {NoTag, GroupId},
                           kind \in {"message", "channelCreate"}}
SessionPeers == {OwnerKey, PeerKey, MutedKey}
NoLast == [seen |-> FALSE, ev |-> Event(PeerKey, NoTag, NoTag, "message"), peer |-> PeerKey,
           pk |-> NoKey, reached |-> FALSE, fromUs |-> FALSE, stored |-> {}]
\* most (conversation id, event) pairs the message store holds in a run
MaxStore == 1

\* useChatInitState
OtherOwner == "O2"     \* the public key of a second account
NoHook == [mounted |-> FALSE, key |-> NoKey, status |-> "loading", flagged |-> {},
           online |-> TRUE, alive |-> FALSE, cap |-> "loading", sub |-> 0, epoch |-> 0,
           initKey |-> NoKey, initLive |-> FALSE]
NewRun == [eose |-> FALSE, timer |-> TRUE, open |-> TRUE, found |-> 0, cancelled |-> FALSE]
\* an effect of useDeviceList / useDeviceRegistration that has not run
NoEffect == [pc |-> "idle", torn |-> FALSE, unsubscribe |-> FALSE, open |-> FALSE]
\* the latest time of a behaviour
MaxClock == 3
\* most subscriptions checkState opens, and most effect runs, in a behaviour
MaxRuns == 2
MaxEffects == 2

\* no device list screen is shown
NoView == [screen |-> "none", devices |-> {}, deviceId |-> NoKey, list |-> EmptyReg,
           editing |-> NoKey]

\* PrivateChats.ts before any call: no delegate manager, the key pair k the
\* store holds (NoKey: none), no identity generated, no call of
\* getDelegateManager() running
NoCall == [pc |-> "idle", storedPubkey |-> NoKey, storedPrivkey |-> NoKey, key |-> NoKey]
NewPChat(k) == [instance |-> NoKey, pub |-> k, priv |-> k, made |-> {},
                call |-> [c \in Callers |-> NoCall]]

\* no service has been reset and no listener cleaned up
NoReset == [dev |-> {}, del |-> {}, ses |-> {}, att |-> {}, n |-> 0]
\* most resets and cleanups in a behaviour
MaxResets == 1

\* ------------------------------------------------------- initial states
\* What an installation can hold when the page loads: a main device with or
\* without a persisted identity and registry cache, or a paired delegate device.
InitStores ==
  \/ /\ storeKey = NoKey
     /\ storeReg = EmptyReg
     /\ relay \in {{}, {Reg({Sibling}, {})}}
  \/ /\ storeKey = StoredKey
     /\ storeReg \in {EmptyReg, Reg({StoredKey}, {}), Reg({Sibling}, {StoredKey})}
     /\ relay \in {{}, {Reg({Sibling}, {})}, {Reg({StoredKey, Sibling}, {})}}

InitEnv ==
  \/ creds = "none" /\ loggedIn \in BOOLEAN /\ InitStores
  \/ /\ creds \in {"inactive", "active"}
     /\ loggedIn = TRUE
     /\ storeKey = NoKey
     /\ storeReg = EmptyReg
     /\ relay \in {{}, {Reg({Sibling}, {})}}

Init ==
  /\ InitEnv
  /\ generated = {}
  /\ delInstance = 0 /\ delPromise = 0
  /\ delTask = [c \in Callers |-> "idle"]
  /\ delObj = [c \in Callers |-> NewDel]
  /\ devInstance = 0 /\ devPromise = 0
  /\ devTask = [c \in Callers |-> "idle"]
  /\ devObj = [c \in Callers |-> NewDev]
  /\ sesInstance = 0 /\ sesPromise = 0
  /\ sesTask = [c \in Callers |-> "idle"]
  /\ sesInited = [c \in Callers |-> FALSE]
  /\ tdev = [c \in Callers |-> NoH]
  /\ tdel = [c \in Callers |-> NoH]
  /\ op = [c \in Callers |-> "none"]
  /\ pc = [c \in Callers |-> "idle"]
  /\ hnd = [c \in Callers |-> NoH]
  /\ dm = [c \in Callers |-> 0]
  /\ gm = [c \in Callers |-> 0]
  /\ arg = [c \in Callers |-> {}]
  /\ ret = [c \in Callers |-> "none"]
  /\ retMgr = [c \in Callers |-> NoRet]
  /\ fetched = [c \in Callers |-> FALSE]
  /\ pub = [c \in Callers |-> {}]
  /\ regOk = FALSE
  /\ fresh = (storeKey = NoKey /\ relay = {} /\ creds = "none" /\ loggedIn)
  /\ hk = "none"
  /\ store = {}
  /\ groups = "absent"
  /\ last = NoLast
  /\ hook \in {[NoHook EXCEPT !.online = o, !.flagged = f] :
                 o \in BOOLEAN, f \in {{}, {OwnerKey}}}
  /\ runs = <<>>
  /\ dl = NoEffect
  /\ rl = NoEffect
  /\ readable \in BOOLEAN
  /\ outbox = {}
  /\ copies = [c \in Callers |-> "none"]
  /\ clock = FirstTime
  /\ view = NoView
  /\ pchat = NewPChat(storeKey)
  /\ old = NoReset

\* ------------------------------------------- DelegateManagerService.ts
\* getDelegateManager(): instance, else the in-flight promise, else start
\* initializeDelegateManager(); h is the promise the call returns.
getDelegateManager_NoMemo(c, h) ==
  \/ /\ delInstance # 0
     /\ h = Obj(delInstance)
     /\ UNCHANGED <<delPromise, delTask>>
  \/ /\ delInstance = 0
     /\ h = Task(c)
     /\ delPromise' = c
     /\ delTask' = [delTask EXCEPT ![c] = IF creds = "none" THEN "import" ELSE "credPut"]

getDelegateManager(c, h) ==
  \/ /\ delInstance # 0
     /\ h = Obj(delInstance)
     /\ UNCHANGED <<delPromise, delTask>>
  \/ /\ delInstance = 0 /\ delPromise # 0
     /\ h = Task(delPromise)
     /\ UNCHANGED <<delPromise, delTask>>
  \/ /\ delInstance = 0 /\ delPromise = 0
     /\ h = Task(c)
     /\ delPromise' = c
     /\ delTask' = [delTask EXCEPT ![c] = IF creds = "none" THEN "import" ELSE "credPut"]

\* restoreFromDelegateCredentials: pre-populate storage with the credentials
restoreFromDelegateCredentials(c) ==
  /\ delTask[c] = "credPut"
  /\ storeKey' = CredKey
  /\ delTask' = [delTask EXCEPT ![c] = "import"]
  /\ UNCHANGED <<generated, delInstance, delPromise, delObj>>
  /\ UNCHANGED <<envVars, devVars, sesVars, relay, callVars>>

\* createOrRestoreFromStorage after `await createDeferredSigningPublish`:
\* the instance is assigned, then init() is called and awaited.
createOrRestoreFromStorage(c) ==
  /\ delTask[c] = "import"
  /\ delInstance' = c
  /\ delObj' = [delObj EXCEPT ![c] = NewDel]
  /\ delTask' = [delTask EXCEPT ![c] = "initRead"]
  /\ UNCHANGED <<storeKey, generated, delPromise>>
  /\ UNCHANGED <<envVars, devVars, sesVars, relay, callVars>>

\* LocalForageStorageAdapter.get: the stored value v, or undefined (none) when
\* there is no value and when store.getItem throws
StorageAdapter_get(v, none) == IF readable THEN v ELSE none

\* DelegateManager.init(): "Auto-loads or generates keys" -- the read half.
DelegateManager_initLoad(c) ==
  /\ delTask[c] = "initRead"
  /\ IF StorageAdapter_get(storeKey, NoKey) # NoKey
       THEN /\ delObj' = [delObj EXCEPT ![c] = [inited |-> TRUE, key |-> storeKey]]
            /\ delTask' = [delTask EXCEPT ![c] = "resolved"]
       ELSE /\ delObj' = [delObj EXCEPT ![c].key = GenKey(c)]
            /\ delTask' = [delTask EXCEPT ![c] = "initWrite"]
  /\ UNCHANGED <<storeKey, generated, delInstance, delPromise>>
  /\ UNCHANGED <<envVars, devVars, sesVars, relay, callVars>>

\* DelegateManager.init(): persist the generated keypair (put may throw).
DelegateManager_initPersist(c) ==
  /\ delTask[c] = "initWrite"
  /\ \/ /\ storeKey' = delObj[c].key
        /\ generated' = generated \cup {delObj[c].key}
        /\ delObj' = [delObj EXCEPT ![c].inited = TRUE]
        /\ delTask' = [delTask EXCEPT ![c] = "resolved"]
     \/ /\ delTask' = [delTask EXCEPT ![c] = "rejected"]
        /\ UNCHANGED <<storeKey, generated, delObj>>
  /\ UNCHANGED <<delInstance, delPromise>>
  /\ UNCHANGED <<envVars, devVars, sesVars, relay, callVars>>

DelSettled(h) == h.k = "obj" \/ (h.k = "task" /\ delTask[h.id] \in {"resolved", "rejected"})
DelRejected(h) == h.k = "task" /\ delTask[h.id] = "rejected"

\* ---------------------------------------------- DeviceManagerService.ts
getDeviceManager(c, h) ==
  \/ /\ devInstance # 0
     /\ h = Obj(devInstance)
     /\ UNCHANGED <<devPromise, devTask>>
  \/ /\ devInstance = 0 /\ devPromise # 0
     /\ h = Task(devPromise)
     /\ UNCHANGED <<devPromise, devTask>>
  \/ /\ devInstance = 0 /\ devPromise = 0
     /\ h = Task(c)
     /\ devPromise' = c
     /\ devTask' = [devTask EXCEPT ![c] = IF loggedIn THEN "waitRelay" ELSE "rejected"]

\* initializeDeviceManager after `await waitForRelayConnection` (a relay is
\* connected or the 10 s poll gave up): construct, assign, call init().
initializeDeviceManager(c) ==
  /\ devTask[c] = "waitRelay"
  /\ devInstance' = c
  /\ devObj' = [devObj EXCEPT ![c] = NewDev]
  /\ devTask' = [devTask EXCEPT ![c] = "init"]
  /\ UNCHANGED <<devPromise, storeReg>>
  /\ UNCHANGED <<envVars, delVars, sesVars, relay, callVars>>

\* DeviceManager.init(): load the cached registry from the store (may throw).
DeviceManager_init(c) ==
  /\ devTask[c] = "init"
  /\ \/ /\ devObj' = [devObj EXCEPT ![c] =
                       [inited |-> TRUE,
                        active |-> StorageAdapter_get(storeReg, EmptyReg).active,
                        revoked |-> StorageAdapter_get(storeReg, EmptyReg).revoked,
                        at |-> StorageAdapter_get(storeReg, EmptyReg).at]]
        /\ devTask' = [devTask EXCEPT ![c] = "resolved"]
     \/ /\ devTask' = [devTask EXCEPT ![c] = "rejected"]
        /\ UNCHANGED devObj
  /\ UNCHANGED <<devInstance, devPromise, storeReg>>
  /\ UNCHANGED <<envVars, delVars, sesVars, relay, callVars>>

DevSettled(h) == h.k = "obj" \/ (h.k = "task" /\ devTask[h.id] \in {"resolved", "rejected"})
DevRejected(h) == h.k = "task" /\ devTask[h.id] = "rejected"

\* --------------------------------------------- SessionManagerService.ts
\* initializeSessionManager, up to its first await. Main device: both
\* getDeviceManager() and getDelegateManager() are called before Promise.all
\* suspends. Delegate device: getDelegateManager() is awaited alone.
initializeSessionManager(c) ==
  IF creds # "none"
    THEN /\ \E h \in {Obj(i) : i \in Callers} \cup {Task(i) : i \in Callers} :
              getDelegateManager(c, h) /\ tdel' = [tdel EXCEPT ![c] = h]
         /\ sesTask' = [sesTask EXCEPT ![c] = "awDel"]
         /\ UNCHANGED <<tdev, devPromise, devTask>>
    ELSE IF ~loggedIn
      THEN /\ sesTask' = [sesTask EXCEPT ![c] = "rejected"]
           /\ UNCHANGED <<tdev, tdel, devPromise, devTask, delPromise, delTask>>
      ELSE /\ \E h \in {Obj(i) : i \in Callers} \cup {Task(i) : i \in Callers} :
                getDeviceManager(c, h) /\ tdev' = [tdev EXCEPT ![c] = h]
           /\ \E h \in {Obj(i) : i \in Callers} \cup {Task(i) : i \in Callers} :
                getDelegateManager(c, h) /\ tdel' = [tdel EXCEPT ![c] = h]
           /\ sesTask' = [sesTask EXCEPT ![c] = "awBoth"]

getSessionManager(c, h) ==
  \/ /\ sesInstance # 0
     /\ h = Obj(sesInstance)
     /\ UNCHANGED <<sesPromise, sesTask, tdev, tdel, devPromise, devTask, delPromise, delTask>>
  \/ /\ sesInstance = 0 /\ sesPromise # 0
     /\ h = Task(sesPromise)
     /\ UNCHANGED <<sesPromise, sesTask, tdev, tdel, devPromise, devTask, delPromise, delTask>>
  \/ /\ sesInstance = 0 /\ sesPromise = 0
     /\ h = Task(c)
     /\ sesPromise' = c
     /\ initializeSessionManager(c)

\* getIdentityPublicKey(): the key the manager holds (NoKey: it has none yet
\* and the call throws)
getIdentityPublicKey(g) == delObj[g].key
\* getOwnDevices(): the active entries of the manager's registry cache
getOwnDevices(d) == devObj[d].active

\* initializeForMainDevice after Promise.all: the registration check.
initializeForMainDevice_NoCheck(c) ==
  /\ sesTask[c] = "awBoth"
  /\ \/ DevRejected(tdev[c]) \/ DelRejected(tdel[c])
     \/ DevSettled(tdev[c]) /\ DelSettled(tdel[c])
  /\ IF DevRejected(tdev[c]) \/ DelRejected(tdel[c])
       THEN sesTask' = [sesTask EXCEPT ![c] = "rejected"]
       ELSE sesTask' = [sesTask EXCEPT ![c] = "activate"]
  /\ UNCHANGED <<sesInstance, sesPromise, sesInited, tdev, tdel>>
  /\ UNCHANGED <<envVars, delVars, devVars, relay, callVars>>

initializeForMainDevice(c) ==
  /\ sesTask[c] = "awBoth"
  /\ \/ DevRejected(tdev[c]) \/ DelRejected(tdel[c])
     \/ DevSettled(tdev[c]) /\ DelSettled(tdel[c])
  /\ IF DevRejected(tdev[c]) \/ DelRejected(tdel[c])
       THEN sesTask' = [sesTask EXCEPT ![c] = "rejected"]
       ELSE IF getIdentityPublicKey(tdel[c].id) = NoKey
         THEN sesTask' = [sesTask EXCEPT ![c] = "rejected"]
         ELSE IF getIdentityPublicKey(tdel[c].id) \notin getOwnDevices(tdev[c].id)
           THEN sesTask' = [sesTask EXCEPT ![c] = "notRegistered"]
           ELSE sesTask' = [sesTask EXCEPT ![c] = "activate"]
  /\ UNCHANGED <<sesInstance, sesPromise, sesInited, tdev, tdel>>
  /\ UNCHANGED <<envVars, delVars, devVars, relay, callVars>>

\* initializeForDelegateDevice after `await getDelegateManager()`: activate
\* at once when the owner is known, else waitForActivation(60000).
initializeForDelegateDevice(c) ==
  /\ sesTask[c] = "awDel"
  /\ DelSettled(tdel[c])
  /\ IF DelRejected(tdel[c])
       THEN sesTask' = [sesTask EXCEPT ![c] = "rejected"]
       ELSE IF creds = "active"
         THEN sesTask' = [sesTask EXCEPT ![c] = "activate"]
         ELSE sesTask' = [sesTask EXCEPT ![c] = "waitActivation"]
  /\ UNCHANGED <<sesInstance, sesPromise, sesInited, tdev, tdel>>
  /\ UNCHANGED <<envVars, delVars, devVars, relay, callVars>>

\* waitForActivation(60000): the owner activates the device, or the wait expires
waitForActivation(c) ==
  /\ sesTask[c] = "waitActivation"
  /\ \/ /\ creds' = "active"
        /\ sesTask' = [sesTask EXCEPT ![c] = "activate"]
     \/ /\ sesTask' = [sesTask EXCEPT ![c] = "rejected"]
        /\ UNCHANGED creds
  /\ UNCHANGED <<sesInstance, sesPromise, sesInited, tdev, tdel>>
  /\ UNCHANGED <<loggedIn, evVars, delVars, devVars, relay, callVars>>

\* after activate(): createSessionManager(), assign the instance, call init()
createSessionManager(c) ==
  /\ sesTask[c] = "activate"
  /\ sesInstance' = c
  /\ sesInited' = [sesInited EXCEPT ![c] = FALSE]
  /\ sesTask' = [sesTask EXCEPT ![c] = "init"]
  /\ UNCHANGED <<sesPromise, tdev, tdel>>
  /\ UNCHANGED <<envVars, delVars, devVars, relay, callVars>>

\* SessionManager.init() completes
SessionManager_init(c) ==
  /\ sesTask[c] = "init"
  /\ sesInited' = [sesInited EXCEPT ![c] = TRUE]
  /\ sesTask' = [sesTask EXCEPT ![c] = "resolved"]
  /\ UNCHANGED <<sesInstance, sesPromise, tdev, tdel>>
  /\ UNCHANGED <<envVars, delVars, devVars, relay, callVars>>

SesSettled(h) ==
  h.k = "obj" \/ (h.k = "task" /\ sesTask[h.id] \in {"resolved", "rejected", "notRegistered"})
SesRejected(h) == h.k = "task" /\ sesTask[h.id] \in {"rejected", "notRegistered"}

\* ------------------------------------------------ callers of the services
Handles == {Obj(i) : i \in Callers} \cup {Task(i) : i \in Callers}
Free(c) == pc[c] \in {"idle", "done"}

\* a caller starts operation o, suspended at p on promise h
Begin(c, o, p, h, a) ==
  /\ op' = [op EXCEPT ![c] = o]
  /\ pc' = [pc EXCEPT ![c] = p]
  /\ hnd' = [hnd EXCEPT ![c] = h]
  /\ dm' = [dm EXCEPT ![c] = 0]
  /\ gm' = [gm EXCEPT ![c] = 0]
  /\ arg' = [arg EXCEPT ![c] = a]
  /\ ret' = [ret EXCEPT ![c] = "none"]
  /\ retMgr' = [retMgr EXCEPT ![c] = NoRet]
  /\ fetched' = [fetched EXCEPT ![c] = FALSE]
  /\ pub' = [pub EXCEPT ![c] = {}]

\* a caller's operation settles with result r
Settle(c, r) ==
  /\ pc' = [pc EXCEPT ![c] = "done"]
  /\ ret' = [ret EXCEPT ![c] = r]
  /\ hnd' = [hnd EXCEPT ![c] = NoH]
  /\ dm' = [dm EXCEPT ![c] = 0]
  /\ gm' = [gm EXCEPT ![c] = 0]

\* `await getDelegateManager()` by a hook (useDeviceRegistration line 56)
CallGetDelegateManager(c) ==
  /\ Free(c)
  /\ \E h \in Handles : getDelegateManager(c, h) /\ Begin(c, "getDel", "awDel", h, {})
  /\ UNCHANGED <<envVars, storeKey, generated, delInstance, delObj, devVars, sesVars,
                 relay, regOk, fresh>>

ResolveGetDelegateManager(c) ==
  /\ op[c] = "getDel" /\ pc[c] = "awDel"
  /\ DelSettled(hnd[c])
  /\ IF DelRejected(hnd[c])
       THEN Settle(c, "rejected") /\ UNCHANGED retMgr
       ELSE /\ Settle(c, "ok")
            /\ retMgr' = [retMgr EXCEPT ![c] =
                            [id |-> hnd[c].id, inited |-> delObj[hnd[c].id].inited]]
  /\ UNCHANGED <<svcVars, op, arg, fetched, pub, regOk, fresh>>

\* `await getDeviceManager()` by a hook (useDeviceList)
CallGetDeviceManager(c) ==
  /\ Free(c)
  /\ \E h \in Handles : getDeviceManager(c, h) /\ Begin(c, "getDev", "awDev", h, {})
  /\ UNCHANGED <<envVars, delVars, devInstance, devObj, storeReg, sesVars,
                 relay, regOk, fresh>>

ResolveGetDeviceManager(c) ==
  /\ op[c] = "getDev" /\ pc[c] = "awDev"
  /\ DevSettled(hnd[c])
  /\ IF DevRejected(hnd[c])
       THEN Settle(c, "rejected") /\ UNCHANGED retMgr
       ELSE /\ Settle(c, "ok")
            /\ retMgr' = [retMgr EXCEPT ![c] =
                            [id |-> hnd[c].id, inited |-> devObj[hnd[c].id].inited]]
  /\ UNCHANGED <<svcVars, op, arg, fetched, pub, regOk, fresh>>

\* getSessionManager() as called by attachSessionEventListener
CallGetSessionManager(c) ==
  /\ Free(c)
  /\ \E h \in Handles : getSessionManager(c, h) /\ Begin(c, "getSes", "awSes", h, {})
  /\ UNCHANGED <<envVars, storeKey, generated, delInstance, delObj, devInstance, devObj,
                 storeReg, sesInstance, sesInited, relay, regOk, fresh>>

ResolveGetSessionManager(c) ==
  /\ op[c] = "getSes" /\ pc[c] = "awSes"
  /\ SesSettled(hnd[c])
  /\ IF SesRejected(hnd[c])
       THEN Settle(c, "rejected") /\ UNCHANGED retMgr
       ELSE /\ Settle(c, "ok")
            /\ retMgr' = [retMgr EXCEPT ![c] =
                            [id |-> hnd[c].id, inited |-> sesInited[hnd[c].id]]]
  /\ UNCHANGED <<svcVars, op, arg, fetched, pub, regOk, fresh>>

\* The three services under concurrent get...() calls.
Next ==
  \E c \in Callers :
    \/ CallGetDelegateManager(c)
    \/ ResolveGetDelegateManager(c)
    \/ CallGetDeviceManager(c)
    \/ ResolveGetDeviceManager(c)
    \/ CallGetSessionManager(c)
    \/ ResolveGetSessionManager(c)
    \/ restoreFromDelegateCredentials(c)
    \/ createOrRestoreFromStorage(c)
    \/ DelegateManager_initLoad(c)
    \/ DelegateManager_initPersist(c)
    \/ initializeDeviceManager(c)
    \/ DeviceManager_init(c)
    \/ initializeForMainDevice(c)
    \/ initializeForDelegateDevice(c)
    \/ waitForActivation(c)
    \/ createSessionManager(c)
    \/ SessionManager_init(c)

\* the relay plays no part in the initialization of the services
\* the store can be read, and no chat screen is involved
Plain == readable /\ hook = NoHook

InitSvc == Init /\ relay = {} /\ Plain

Spec == InitSvc /\ [][Next]_vars

\* the same services when reads of the key-value store may fail
InitStore == Init /\ relay = {} /\ hook = NoHook

SpecStore == InitStore /\ [][Next]_vars

\* ------------------------------------------------ the registry (library)
RegOf(o) == [active |-> o.active, revoked |-> o.revoked, at |-> o.at]
WithReg(o, r) ==
  [inited |-> o.inited, active |-> r.active, revoked |-> r.revoked, at |-> r.at]
\* addDevice(entry): insert by identityPubkey
addDevice(r, k) ==
  [active |-> r.active \cup {k}, revoked |-> r.revoked \ {k},
   at |-> [x \in r.revoked \ {k} |-> r.at[x]]]
\* revokeDevice(k) that stamps the entry on every call
revokeDevice_Restamp(r, k) ==
  IF k \in r.active \cup r.revoked
    THEN [active |-> r.active \ {k}, revoked |-> r.revoked \cup {k},
          at |-> [x \in r.revoked \cup {k} |-> IF x = k THEN clock ELSE r.at[x]]]
    ELSE r

\* revokeDevice(k): move the entry from the active devices to the revoked
\* ones with revokedAt = now; a no-op when k is not an active device
revokeDevice(r, k) ==
  IF k \in r.active
    THEN [active |-> r.active \ {k}, revoked |-> r.revoked \cup {k},
          at |-> [x \in r.revoked \cup {k} |-> IF x = k THEN clock ELSE r.at[x]]]
    ELSE r
\* setApplicationKeys(remote): "Set the remote list as our local list"
setApplicationKeys(r, remote) == remote
\* ApplicationKeys.getDevice(k): the active entry of k, if any
getDevice(r, k) == k \in r.active

\* the manager's registry is replaced and written through to the store
StoreRegistry(d, r) ==
  /\ devObj' = [devObj EXCEPT ![d] = WithReg(devObj[d], r)]
  /\ storeReg' = r

\* ------------------------------------------ DeviceRegistrationService.ts
RegOps == {"isReg", "register", "addExisting", "revokeCur"}
\* how a failure inside the operation reaches its caller: isDeviceRegistered
\* catches everything and returns false
Failure_Rethrow(o) == "rejected"

Failure(o) == IF o = "isReg" THEN "false" ELSE "rejected"

CallIsDeviceRegistered(c) ==
  /\ Free(c)
  /\ \E h \in Handles : getDeviceManager(c, h) /\ Begin(c, "isReg", "awDev", h, {})
  /\ UNCHANGED <<envVars, delVars, devInstance, devObj, storeReg, sesVars,
                 relay, regOk, fresh>>

CallRegisterCurrentDevice(c) ==
  /\ Free(c)
  /\ \E h \in Handles : getDeviceManager(c, h) /\ Begin(c, "register", "awDev", h, {})
  /\ UNCHANGED <<envVars, delVars, devInstance, devObj, storeReg, sesVars,
                 relay, regOk, fresh>>

\* the argument is the registry the hook fetched from the relay
CallAddDeviceToExistingList(c) ==
  /\ Free(c)
  /\ \E r \in relay : \E h \in Handles :
       getDeviceManager(c, h) /\ Begin(c, "addExisting", "awDev", h, {r})
  /\ UNCHANGED <<envVars, delVars, devInstance, devObj, storeReg, sesVars,
                 relay, regOk, fresh>>

\* revokeCurrentDevice: returns at once without a public key
CallRevokeCurrentDevice(c) ==
  /\ Free(c)
  /\ IF ~loggedIn
       THEN /\ Begin(c, "revokeCur", "done", NoH, {})
            /\ UNCHANGED <<devPromise, devTask>>
       ELSE \E h \in Handles : getDeviceManager(c, h) /\ Begin(c, "revokeCur", "awDev", h, {})
  /\ UNCHANGED <<envVars, delVars, devInstance, devObj, storeReg, sesVars,
                 relay, regOk, fresh>>

\* `const deviceManager = await getDeviceManager()` resumes, then
\* getDelegateManager() is called
AwaitDeviceManager(c) ==
  /\ op[c] \in RegOps /\ pc[c] = "awDev"
  /\ DevSettled(hnd[c])
  /\ IF DevRejected(hnd[c])
       THEN /\ Settle(c, Failure(op[c]))
            /\ UNCHANGED <<delPromise, delTask>>
       ELSE /\ \E h \in Handles : getDelegateManager(c, h) /\ hnd' = [hnd EXCEPT ![c] = h]
            /\ dm' = [dm EXCEPT ![c] = hnd[c].id]
            /\ pc' = [pc EXCEPT ![c] = "awDel"]
            /\ UNCHANGED <<gm, ret>>
  /\ UNCHANGED <<envVars, storeKey, generated, delInstance, delObj, devVars, sesVars,
                 relay, op, arg, retMgr, fetched, pub, regOk, fresh>>

\* isDeviceRegistered after `await getDelegateManager()`: the local fast
\* path, else the remote check ApplicationKeys.waitFor(publicKey, subscribe, 5000)
isDeviceRegistered_local_NoFastPath(c) ==
  IF getIdentityPublicKey(hnd[c].id) = NoKey \/ ~loggedIn
    THEN Settle(c, "false") /\ UNCHANGED fetched
    ELSE /\ pc' = [pc EXCEPT ![c] = "waitFor"]
         /\ gm' = [gm EXCEPT ![c] = hnd[c].id]
         /\ hnd' = [hnd EXCEPT ![c] = NoH]
         /\ fetched' = [fetched EXCEPT ![c] = TRUE]
         /\ UNCHANGED <<dm, ret>>

isDeviceRegistered_local(c) ==
  IF getIdentityPublicKey(hnd[c].id) = NoKey
    THEN Settle(c, "false") /\ UNCHANGED fetched
    ELSE IF getIdentityPublicKey(hnd[c].id) \in getOwnDevices(dm[c])
      THEN Settle(c, "true") /\ UNCHANGED fetched
      ELSE IF ~loggedIn
        THEN Settle(c, "false") /\ UNCHANGED fetched
        ELSE /\ pc' = [pc EXCEPT ![c] = "waitFor"]
             /\ gm' = [gm EXCEPT ![c] = hnd[c].id]
             /\ hnd' = [hnd EXCEPT ![c] = NoH]
             /\ fetched' = [fetched EXCEPT ![c] = TRUE]
             /\ UNCHANGED <<dm, ret>>

IsRegLocal(c) ==
  /\ op[c] = "isReg" /\ pc[c] = "awDel"
  /\ DelSettled(hnd[c])
  /\ IF DelRejected(hnd[c])
       THEN Settle(c, "false") /\ UNCHANGED fetched
       ELSE isDeviceRegistered_local(c)
  /\ UNCHANGED <<svcVars, op, arg, retMgr, pub, regOk, fresh>>

\* "Found on relay - sync to local storage":
\* deviceManager.setApplicationKeys(remoteApplicationKeys) is called
isDeviceRegistered_sync_NoStore(c, r) == UNCHANGED <<devObj, storeReg>>

isDeviceRegistered_sync(c, r) ==
  StoreRegistry(dm[c], setApplicationKeys(RegOf(devObj[dm[c]]), r))

\* ApplicationKeys.waitFor settles: the 5000 ms timer fires (null), the fetch
\* fails, or the relay delivers the owner's registry
isDeviceRegistered_remote(c) ==
  \/ /\ Settle(c, "false")                       \* timeout or failure
     /\ UNCHANGED <<arg, devObj, storeReg>>
  \/ \E r \in relay :
       IF getDevice(r, getIdentityPublicKey(gm[c]))
         THEN /\ isDeviceRegistered_sync(c, r)
              /\ arg' = [arg EXCEPT ![c] = {r}]
              /\ pc' = [pc EXCEPT ![c] = "setKeys"]
              /\ UNCHANGED <<hnd, dm, gm, ret>>
         ELSE Settle(c, "false") /\ UNCHANGED <<arg, devObj, storeReg>>

IsRegRemote(c) ==
  /\ op[c] = "isReg" /\ pc[c] = "waitFor"
  /\ isDeviceRegistered_remote(c)
  /\ UNCHANGED <<envVars, delVars, devInstance, devPromise, devTask, sesVars, relay,
                 op, retMgr, fetched, pub, regOk, fresh>>

\* `await deviceManager.setApplicationKeys(...)` resumes; return true
IsRegSync(c) ==
  /\ op[c] = "isReg" /\ pc[c] = "setKeys"
  /\ Settle(c, "true")
  /\ UNCHANGED <<svcVars, op, arg, retMgr, fetched, pub, regOk, fresh>>

\* registerCurrentDevice after `await getDelegateManager()`:
\* addDevice(self), then publish() is called with the registry as it is now
registerCurrentDevice_NoAdd(c) ==
  IF getIdentityPublicKey(hnd[c].id) = NoKey
    THEN /\ Settle(c, "rejected")
         /\ UNCHANGED <<devObj, storeReg, pub>>
    ELSE /\ UNCHANGED <<devObj, storeReg>>
         /\ pub' = [pub EXCEPT ![c] = {RegOf(devObj[dm[c]])}]
         /\ pc' = [pc EXCEPT ![c] = "publish"]
         /\ gm' = [gm EXCEPT ![c] = hnd[c].id]
         /\ hnd' = [hnd EXCEPT ![c] = NoH]
         /\ UNCHANGED <<dm, ret>>

registerCurrentDevice(c) ==
  IF getIdentityPublicKey(hnd[c].id) = NoKey
    THEN /\ Settle(c, "rejected")
         /\ UNCHANGED <<devObj, storeReg, pub>>
    ELSE /\ StoreRegistry(dm[c], addDevice(RegOf(devObj[dm[c]]), getIdentityPublicKey(hnd[c].id)))
         /\ pub' = [pub EXCEPT ![c] =
                      {addDevice(RegOf(devObj[dm[c]]), getIdentityPublicKey(hnd[c].id))}]
         /\ pc' = [pc EXCEPT ![c] = "publish"]
         /\ gm' = [gm EXCEPT ![c] = hnd[c].id]
         /\ hnd' = [hnd EXCEPT ![c] = NoH]
         /\ UNCHANGED <<dm, ret>>

RegisterAdd(c) ==
  /\ op[c] = "register" /\ pc[c] = "awDel"
  /\ DelSettled(hnd[c])
  /\ IF DelRejected(hnd[c])
       THEN Settle(c, "rejected") /\ UNCHANGED <<devObj, storeReg, pub>>
       ELSE registerCurrentDevice(c)
  /\ UNCHANGED <<envVars, delVars, devInstance, devPromise, devTask, sesVars, relay,
                 op, arg, retMgr, fetched, regOk, fresh>>

\* addDeviceToExistingList after `await getDelegateManager()`: "Set the
\* remote list as our local list" -- setApplicationKeys(remote) is called
addDeviceToExistingList_set_Skip(c) == UNCHANGED <<devObj, storeReg>>

addDeviceToExistingList_set(c) ==
  \E r \in arg[c] : StoreRegistry(dm[c], setApplicationKeys(RegOf(devObj[dm[c]]), r))

AddExistingSet(c) ==
  /\ op[c] = "addExisting" /\ pc[c] = "awDel"
  /\ DelSettled(hnd[c])
  /\ IF DelRejected(hnd[c]) \/ getIdentityPublicKey(hnd[c].id) = NoKey
       THEN Settle(c, "rejected") /\ UNCHANGED <<devObj, storeReg>>
       ELSE /\ addDeviceToExistingList_set(c)
            /\ pc' = [pc EXCEPT ![c] = "setKeys"]
            /\ gm' = [gm EXCEPT ![c] = hnd[c].id]
            /\ hnd' = [hnd EXCEPT ![c] = NoH]
            /\ UNCHANGED <<dm, ret>>
  /\ UNCHANGED <<envVars, delVars, devInstance, devPromise, devTask, sesVars, relay,
                 op, arg, retMgr, fetched, pub, regOk, fresh>>

\* `await deviceManager.setApplicationKeys(...)` resumes: "Add this device
\* to the list", then publish() is called with the registry as it is now
AddExistingAdd(c) ==
  /\ op[c] = "addExisting" /\ pc[c] = "setKeys"
  /\ StoreRegistry(dm[c], addDevice(RegOf(devObj[dm[c]]), getIdentityPublicKey(gm[c])))
  /\ pub' = [pub EXCEPT ![c] =
               {addDevice(RegOf(devObj[dm[c]]), getIdentityPublicKey(gm[c]))}]
  /\ pc' = [pc EXCEPT ![c] = "publish"]
  /\ UNCHANGED <<envVars, delVars, devInstance, devPromise, devTask, sesVars, relay,
                 op, hnd, dm, gm, arg, ret, retMgr, fetched, regOk, fresh>>

\* `await deviceManager.publish()`: the relay now holds the document, or the
\* publish fails and the operation rejects (the local registry is kept)
Publish(c) ==
  /\ op[c] \in {"register", "addExisting"} /\ pc[c] = "publish"
  /\ \/ /\ relay' = pub[c]
        /\ Settle(c, "ok")
        /\ regOk' = (regOk \/ op[c] = "register")
     \/ /\ Settle(c, "rejected")
        /\ UNCHANGED <<relay, regOk>>
  /\ UNCHANGED <<envVars, delVars, devVars, sesVars, op, arg, retMgr, fetched, pub, fresh>>

\* revokeCurrentDevice after `await getDelegateManager()`:
\* `await deviceManager.revokeDevice(identityPubkey)`
revokeCurrentDevice(c) ==
  IF getIdentityPublicKey(hnd[c].id) = NoKey
    THEN /\ Settle(c, "rejected")
         /\ UNCHANGED <<devObj, storeReg, regOk>>
    ELSE /\ StoreRegistry(dm[c], revokeDevice(RegOf(devObj[dm[c]]),
                                             getIdentityPublicKey(hnd[c].id)))
         /\ regOk' = FALSE
         /\ Settle(c, "ok")

RevokeCurrent(c) ==
  /\ op[c] = "revokeCur" /\ pc[c] = "awDel"
  /\ DelSettled(hnd[c])
  /\ IF DelRejected(hnd[c])
       THEN Settle(c, "rejected") /\ UNCHANGED <<devObj, storeReg, regOk>>
       ELSE revokeCurrentDevice(c)
  /\ UNCHANGED <<envVars, delVars, devInstance, devPromise, devTask, sesVars, relay,
                 op, arg, retMgr, fetched, pub, fresh>>

\* The registration service on a main device, with its managers. Caller 1 is
\* the devices screen, whose modal flow runs one registration action at a
\* time; the other callers are the hooks and listeners that call
\* isDeviceRegistered() on their own (attachSessionEventListener, DevicesTab,
\* useDeviceRegistration).
InitReg == Init /\ creds = "none" /\ Plain

NextReg ==
  \E c \in Callers :
    \/ CallIsDeviceRegistered(c)
    \/ c = 1 /\ CallRegisterCurrentDevice(c)
    \/ c = 1 /\ CallAddDeviceToExistingList(c)
    \/ c = 1 /\ CallRevokeCurrentDevice(c)
    \/ AwaitDeviceManager(c)
    \/ IsRegLocal(c)
    \/ IsRegRemote(c)
    \/ IsRegSync(c)
    \/ RegisterAdd(c)
    \/ AddExistingSet(c)
    \/ AddExistingAdd(c)
    \/ Publish(c)
    \/ RevokeCurrent(c)
    \/ createOrRestoreFromStorage(c)
    \/ DelegateManager_initLoad(c)
    \/ DelegateManager_initPersist(c)
    \/ initializeDeviceManager(c)
    \/ DeviceManager_init(c)

SpecReg == InitReg /\ [][NextReg]_vars

\* Every started task and every pending await is eventually resumed: the
\* storage and relay calls settle, and waitForRelayConnection and
\* ApplicationKeys.waitFor are bounded by their timers.
TaskStep(c) ==
  \/ createOrRestoreFromStorage(c)
  \/ DelegateManager_initLoad(c)
  \/ DelegateManager_initPersist(c)
  \/ initializeDeviceManager(c)
  \/ DeviceManager_init(c)

OpStep(c) ==
  \/ AwaitDeviceManager(c)
  \/ IsRegLocal(c)
  \/ IsRegRemote(c)
  \/ IsRegSync(c)
  \/ RegisterAdd(c)
  \/ AddExistingSet(c)
  \/ AddExistingAdd(c)
  \/ Publish(c)
  \/ RevokeCurrent(c)

FairSpecReg ==
  SpecReg /\ \A c \in Callers : WF_vars(TaskStep(c)) /\ WF_vars(OpStep(c))

\* ------------------------------------------------ session event listeners
\* useUserStore.getState().publicKey
publicKey == IF loggedIn THEN OwnerKey ELSE NoKey

\* getMutedByUser(publicKey)
mutedUsers == {MutedKey}

\* delegateCredentials?.devicePublicKey as the listener captured it: the
\* credentials exist on a paired delegate device only
delegatePubkey(h) == IF h = "main" THEN NoKey ELSE DeviceKey

\* const isFromUs = event.pubkey === publicKey ||
\*   (delegatePubkey && event.pubkey === delegatePubkey) || pubKey === publicKey
isFromUs(ev, peer, pk, dpk) ==
  \/ ev.pubkey = pk
  \/ (dpk # NoKey /\ ev.pubkey = dpk)
  \/ peer = pk

\* const chatId = isFromUs ? pTag : pubKey
chatId_AlwaysPeer(ev, peer, fromUs) == peer

chatId(ev, peer, fromUs) == IF fromUs THEN ev.p ELSE peer

\* const normalizedEvent = isFromUs ? {...event, pubkey: publicKey} : event
normalizedEvent(ev, pk, fromUs) == IF fromUs THEN [ev EXCEPT !.pubkey = pk] ELSE ev

Upsert(id, ev) == [chat |-> id, ev |-> ev]

\* the conversation a group message is stored under: upsert(lTag, publicKey, event)
groupChatId_Peer(ev, peer) == peer

groupChatId(ev, peer) == ev.l
Outcome(ev, peer, pk, reached, fromUs, stored) ==
  [seen |-> TRUE, ev |-> ev, peer |-> peer, pk |-> pk, reached |-> reached,
   fromUs |-> fromUs, stored |-> stored]

\* the sessionManager.onEvent callback attachSessionEventListener installs
\* (dmEventHandler.ts), on a main device or on a paired delegate device
dmEventHandler(ev, peer) ==
  IF publicKey = NoKey \/ peer \in mutedUsers
    THEN /\ last' = Outcome(ev, peer, publicKey, FALSE, FALSE, {})
         /\ UNCHANGED <<store, groups>>
    ELSE IF ev.kind = "channelCreate" /\ ev.l # NoTag
      THEN /\ groups' \in {groups, "real"}       \* JSON.parse may throw
           /\ last' = Outcome(ev, peer, publicKey, FALSE, FALSE, {})
           /\ UNCHANGED store
      ELSE IF ev.l # NoTag
        THEN /\ groups' = IF groups = "absent" THEN "placeholder" ELSE groups
             /\ store' = store \cup {Upsert(groupChatId(ev, peer), ev)}
             /\ last' = Outcome(ev, peer, publicKey, FALSE, FALSE,
                                {Upsert(groupChatId(ev, peer), ev)})
        ELSE IF ev.p = NoTag
          THEN /\ last' = Outcome(ev, peer, publicKey, FALSE, FALSE, {})
               /\ UNCHANGED <<store, groups>>
          ELSE /\ store' = store \cup
                     {Upsert(chatId(ev, peer, isFromUs(ev, peer, publicKey, delegatePubkey(hk))),
                             normalizedEvent(ev, publicKey,
                                             isFromUs(ev, peer, publicKey, delegatePubkey(hk))))}
               /\ last' = Outcome(ev, peer, publicKey, TRUE, isFromUs(ev, peer, publicKey, delegatePubkey(hk)),
                     {Upsert(chatId(ev, peer, isFromUs(ev, peer, publicKey, delegatePubkey(hk))),
                             normalizedEvent(ev, publicKey,
                                             isFromUs(ev, peer, publicKey, delegatePubkey(hk))))})
               /\ UNCHANGED groups

\* the callback attachDelegateEventListener installs (DelegateDevice module);
\* publicKeyPublicKey is its argument
delegateEventHandler(ev, peer) ==
  IF ev.p = NoTag
    THEN /\ last' = Outcome(ev, peer, OwnerKey, FALSE, FALSE, {})
         /\ UNCHANGED <<store, groups>>
    ELSE /\ store' = store \cup
               {Upsert(chatId(ev, peer, isFromUs(ev, peer, OwnerKey, delegatePubkey(hk))),
                       normalizedEvent(ev, OwnerKey,
                                       isFromUs(ev, peer, OwnerKey, delegatePubkey(hk))))}
         /\ last' = Outcome(ev, peer, OwnerKey, TRUE, isFromUs(ev, peer, OwnerKey, delegatePubkey(hk)),
               {Upsert(chatId(ev, peer, isFromUs(ev, peer, OwnerKey, delegatePubkey(hk))),
                       normalizedEvent(ev, OwnerKey,
                                       isFromUs(ev, peer, OwnerKey, delegatePubkey(hk))))})
         /\ UNCHANGED groups

OnSessionEvent ==
  /\ hk \in {"main", "delegate"}
  /\ \E ev \in Events, peer \in SessionPeers : dmEventHandler(ev, peer)
  /\ Cardinality(store') <= MaxStore
  /\ UNCHANGED <<loggedIn, mgrVars, callVars, hk, uiVars, readable, sendVars, clock, view, pchat, old>>

OnDelegateEvent ==
  /\ hk = "delegateDevice"
  /\ \E ev \in Events, peer \in SessionPeers : delegateEventHandler(ev, peer)
  /\ Cardinality(store') <= MaxStore
  /\ UNCHANGED <<loggedIn, mgrVars, callVars, hk, uiVars, readable, sendVars, clock, view, pchat, old>>

\* the user logs out or in again while the listener stays subscribed
SetPublicKey ==
  /\ hk \in {"main", "delegate"}
  /\ loggedIn' = ~loggedIn
  /\ UNCHANGED <<mgrVars, callVars, evVars>>

\* a listener is attached: attachSessionEventListener on a main device or on
\* an activated delegate device, attachDelegateEventListener on a delegate device
InitEv ==
  /\ Init /\ loggedIn /\ relay = {} /\ Plain
  /\ creds = "none" => storeReg = Reg({StoredKey}, {})
  /\ creds # "inactive"

AttachListener ==
  /\ hk = "none"
  /\ \/ creds = "none" /\ storeKey # NoKey /\ storeKey \in storeReg.active /\ hk' = "main"
     \/ creds = "active" /\ hk' \in {"delegate", "delegateDevice"}
  /\ UNCHANGED <<loggedIn, mgrVars, callVars, store, groups, last, uiVars, readable, sendVars, clock, view, pchat, old>>

NextEv ==
  \/ AttachListener
  \/ OnSessionEvent
  \/ OnDelegateEvent
  \/ SetPublicKey

SpecEv == InitEv /\ [][NextEv]_vars

\* ---------------------------------------------------- useChatInitState.ts
\* checkState(), called with the effect's closure h: it has no await, so it
\* runs to its end (the subscribe call and setTimeout) in one step
checkState(h, rs) ==
  IF h.key \in h.flagged
    THEN hook' = [h EXCEPT !.status = "ready"] /\ runs' = rs
    ELSE IF ~h.online
      THEN hook' = [h EXCEPT !.status = "offline"] /\ runs' = rs
      ELSE /\ Len(rs) < MaxRuns
           /\ runs' = Append(rs, NewRun)
           /\ hook' = [h EXCEPT !.status = "checking_remote", !.sub = Len(rs) + 1]

\* the effect's cleanup: cancelled = true; subscription?.stop()
Cleanup(rs, h) ==
  IF h.alive
    THEN [i \in DOMAIN rs |->
            [rs[i] EXCEPT !.cancelled = TRUE, !.open = IF i = h.sub THEN FALSE ELSE @]]
    ELSE rs

\* the effect body for public key k, run in a render whose state is h.status
UseEffect(h, rs, k) ==
  IF k = NoKey
    THEN /\ hook' = [h EXCEPT !.key = k, !.status = "loading", !.alive = FALSE,
                              !.sub = 0, !.epoch = @ + 1]
         /\ runs' = rs
    ELSE checkState([h EXCEPT !.key = k, !.alive = TRUE, !.cap = h.status,
                             !.sub = 0, !.epoch = @ + 1], rs)

HookMount ==
  /\ ~hook.mounted /\ hook.epoch < MaxEffects
  /\ \E k \in {NoKey, OwnerKey, OtherOwner} :
       UseEffect([hook EXCEPT !.mounted = TRUE, !.status = "loading"], runs, k)
  /\ UNCHANGED <<loggedIn, mgrVars, callVars, hk, store, groups, last, dl, rl, readable, sendVars, clock, view, pchat, old>>

\* publicKey changes: the cleanup of the old effect, then the new effect
HookKeyChange ==
  /\ hook.mounted /\ hook.epoch < MaxEffects
  /\ \E k \in {NoKey, OwnerKey, OtherOwner} \ {hook.key} :
       UseEffect(hook, Cleanup(runs, hook), k)
  /\ UNCHANGED <<loggedIn, mgrVars, callVars, hk, store, groups, last, dl, rl, readable, sendVars, clock, view, pchat, old>>

HookUnmount ==
  /\ hook.mounted
  /\ runs' = Cleanup(runs, hook)
  /\ hook' = [hook EXCEPT !.mounted = FALSE, !.alive = FALSE, !.sub = 0,
                          !.initLive = FALSE]
  /\ UNCHANGED <<loggedIn, mgrVars, callVars, hk, store, groups, last, dl, rl, readable, sendVars, clock, view, pchat, old>>

\* subscription.on("event")
HookRelayEvent(r) ==
  /\ runs[r].open /\ runs[r].found = 0
  /\ runs' = [runs EXCEPT ![r].found = 1]
  /\ UNCHANGED <<loggedIn, mgrVars, callVars, hk, store, groups, last, hook, dl, rl, readable, sendVars, clock, view, pchat, old>>

\* subscription.on("eose"); closeOnEose closes the subscription
HookEose(r) ==
  /\ runs[r].open
  /\ IF runs[r].eose \/ runs[r].cancelled
       THEN /\ runs' = [runs EXCEPT ![r].open = FALSE]
            /\ UNCHANGED hook
       ELSE /\ runs' = [runs EXCEPT ![r].open = FALSE, ![r].eose = TRUE]
            /\ hook' = [hook EXCEPT !.status =
                          IF runs[r].found > 0 THEN "needs_link" ELSE "needs_new"]
  /\ UNCHANGED <<loggedIn, mgrVars, callVars, hk, store, groups, last, dl, rl, readable, sendVars, clock, view, pchat, old>>

\* the timeout callback without its body
HookTimeout_NoState(r) ==
  /\ runs[r].timer
  /\ runs' = [runs EXCEPT ![r].timer = FALSE]
  /\ UNCHANGED hook
  /\ UNCHANGED <<loggedIn, mgrVars, callVars, hk, store, groups, last, dl, rl, readable, sendVars, clock, view, pchat, old>>

\* the setTimeout(..., EOSE_TIMEOUT_MS) callback of run r
HookTimeout(r) ==
  /\ runs[r].timer
  /\ IF ~runs[r].eose /\ ~runs[r].cancelled
       THEN /\ runs' = [i \in DOMAIN runs |->
                         [runs[i] EXCEPT !.timer = IF i = r THEN FALSE ELSE @,
                                         !.eose = IF i = r THEN TRUE ELSE @,
                                         !.open = IF i = hook.sub THEN FALSE ELSE @]]
            /\ hook' = [hook EXCEPT !.status = "needs_new"]
       ELSE /\ runs' = [runs EXCEPT ![r].timer = FALSE]
            /\ UNCHANGED hook
  /\ UNCHANGED <<loggedIn, mgrVars, callVars, hk, store, groups, last, dl, rl, readable, sendVars, clock, view, pchat, old>>

\* the browser goes offline
HookOffline ==
  /\ hook.online
  /\ hook' = [hook EXCEPT !.online = FALSE]
  /\ UNCHANGED <<loggedIn, mgrVars, callVars, hk, store, groups, last, runs, dl, rl, readable, sendVars, clock, view, pchat, old>>

\* the 'online' event: handleOnline reads the state its effect captured
handleOnline(h) ==
  IF h.alive /\ h.cap = "offline" THEN checkState(h, runs) ELSE hook' = h /\ UNCHANGED runs

HookOnline ==
  /\ ~hook.online
  /\ handleOnline([hook EXCEPT !.online = TRUE])
  /\ UNCHANGED <<loggedIn, mgrVars, callVars, hk, store, groups, last, dl, rl, readable, sendVars, clock, view, pchat, old>>

\* ChatInitScreen.handleInitialize, up to `await initializeChat()`: the button
\* is on the needs_new and needs_link screens; onComplete is the setReady of
\* this render, whose flagKey is that of the current public key
handleInitialize ==
  /\ hook.mounted /\ hook.status \in {"needs_new", "needs_link"}
  /\ hook.initKey = NoKey
  /\ hook' = [hook EXCEPT !.initKey = hook.key, !.initLive = TRUE]
  /\ UNCHANGED <<loggedIn, mgrVars, callVars, hk, store, groups, last, runs, dl, rl, readable, sendVars, clock, view, pchat, old>>

\* setReady as captured at the click, k the public key of its flagKey:
\* localStorage.setItem(flagKey, "true"); setState({status: "ready"}), the
\* latter without effect once the hook has unmounted
setReady(h, k) ==
  [h EXCEPT !.flagged = @ \cup {k},
            !.status = IF h.initLive THEN "ready" ELSE @]

\* `await initializeChat()` resumes: onComplete(), or the error is shown
InitializeChatDone ==
  /\ hook.initKey # NoKey
  /\ \/ hook' = [setReady(hook, hook.initKey) EXCEPT !.initKey = NoKey, !.initLive = FALSE]
     \/ hook' = [hook EXCEPT !.initKey = NoKey, !.initLive = FALSE]
  /\ UNCHANGED <<loggedIn, mgrVars, callVars, hk, store, groups, last, runs, dl, rl, readable, sendVars, clock, view, pchat, old>>

NextInit ==
  \/ HookMount
  \/ HookKeyChange
  \/ HookUnmount
  \/ \E r \in 1..MaxRuns : r \in DOMAIN runs /\ HookRelayEvent(r)
  \/ \E r \in 1..MaxRuns : r \in DOMAIN runs /\ HookEose(r)
  \/ \E r \in 1..MaxRuns : r \in DOMAIN runs /\ HookTimeout(r)
  \/ HookOffline
  \/ HookOnline
  \/ handleInitialize
  \/ InitializeChatDone

InitInit == Init /\ creds = "none" /\ loggedIn /\ relay = {} /\ storeKey = NoKey /\ readable

SpecInit == InitInit /\ [][NextInit]_vars

\* every timer that was set fires
FairSpecInit ==
  SpecInit /\ \A r \in 1..(MaxRuns + 1) : WF_vars(r \in DOMAIN runs /\ HookTimeout(r))

\* ------------------------------------------------ useDeviceList (effect)
\* the effect runs with a public key: setup() starts and awaits
\* getDelegateManager(); the outcome of the two awaited promises is an input
DeviceListEffect ==
  /\ dl.pc = "idle" /\ ~dl.torn
  /\ dl' = [dl EXCEPT !.pc = "awDelegate"]
  /\ UNCHANGED <<svcVars_noUi, callVars, hookVars, rl>>

\* setup() resumes after getDelegateManager() and awaits getDeviceManager()
DeviceListGotDelegate ==
  /\ dl.pc = "awDelegate"
  /\ \E ok \in BOOLEAN : dl' = [dl EXCEPT !.pc = IF ok THEN "awDevice" ELSE "failed"]
  /\ UNCHANGED <<svcVars_noUi, callVars, hookVars, rl>>

\* setup() resumes after getDeviceManager():
\* unsubscribe = InviteList.fromUser(...), whether or not the cleanup has run
DeviceListSubscribe ==
  /\ dl.pc = "awDevice"
  /\ \E ok \in BOOLEAN :
       dl' = IF ok THEN [dl EXCEPT !.pc = "subscribed", !.unsubscribe = TRUE, !.open = TRUE]
                   ELSE [dl EXCEPT !.pc = "failed"]
  /\ UNCHANGED <<svcVars_noUi, callVars, hookVars, rl>>

\* the cleanup: if (unsubscribe) unsubscribe()
DeviceListCleanup ==
  /\ dl.pc # "idle" /\ ~dl.torn
  /\ dl' = [dl EXCEPT !.torn = TRUE, !.open = IF dl.unsubscribe THEN FALSE ELSE @]
  /\ UNCHANGED <<svcVars_noUi, callVars, hookVars, rl>>

\* ---------------------------- useDeviceRegistration (remote-list effect)
\* the effect runs with a public key on an unregistered device: it subscribes
\* synchronously
RemoteListEffect ==
  /\ rl.pc = "idle" /\ ~rl.torn
  /\ rl' = [rl EXCEPT !.pc = "subscribed", !.unsubscribe = TRUE, !.open = TRUE]
  /\ UNCHANGED <<svcVars_noUi, callVars, hookVars, dl>>

\* the cleanup: unsubscribe(); clearTimeout(timeout)
RemoteListCleanup ==
  /\ rl.pc # "idle" /\ ~rl.torn
  /\ rl' = [rl EXCEPT !.torn = TRUE, !.open = FALSE]
  /\ UNCHANGED <<svcVars_noUi, callVars, hookVars, dl>>

NextTeardown ==
  \/ NextInit
  \/ DeviceListEffect
  \/ DeviceListGotDelegate
  \/ DeviceListSubscribe
  \/ DeviceListCleanup
  \/ RemoteListEffect
  \/ RemoteListCleanup

SpecTeardown == InitInit /\ [][NextTeardown]_vars

\* ------------------------------------- attachSessionEventListener (main)
\* attachSessionEventListener on a main device, after `await
\* isDeviceRegistered()` returned true: getSessionManager() is called
AttachGetSessionManager(c) ==
  /\ creds = "none" /\ hk = "none"
  /\ op[c] = "isReg" /\ pc[c] = "done" /\ ret[c] = "true"
  /\ \E h \in Handles : getSessionManager(c, h) /\ Begin(c, "attach", "awSes", h, {})
  /\ UNCHANGED <<envVars, storeKey, generated, delInstance, delObj, devInstance, devObj,
                 storeReg, sesInstance, sesInited, relay, regOk, fresh>>

\* its .then(): sessionManager.onEvent(...) is subscribed; .catch(): logged
AttachSubscribe(c) ==
  /\ op[c] = "attach" /\ pc[c] = "awSes"
  /\ SesSettled(hnd[c])
  /\ IF SesRejected(hnd[c])
       THEN Settle(c, "rejected") /\ UNCHANGED hk
       ELSE Settle(c, "ok") /\ hk' = "main"
  /\ UNCHANGED <<loggedIn, mgrVars, store, groups, last, uiVars, readable, sendVars, clock, view, pchat, old, op, arg, retMgr,
                 fetched, pub, regOk, fresh>>

\* A main device on which nothing but isDeviceRegistered(),
\* getSessionManager() and attachSessionEventListener() is called.
NextAttach ==
  \E c \in Callers :
    \/ CallIsDeviceRegistered(c)
    \/ AwaitDeviceManager(c)
    \/ IsRegLocal(c)
    \/ IsRegRemote(c)
    \/ IsRegSync(c)
    \/ CallGetSessionManager(c)
    \/ ResolveGetSessionManager(c)
    \/ AttachGetSessionManager(c)
    \/ AttachSubscribe(c)
    \/ createOrRestoreFromStorage(c)
    \/ DelegateManager_initLoad(c)
    \/ DelegateManager_initPersist(c)
    \/ initializeDeviceManager(c)
    \/ DeviceManager_init(c)
    \/ initializeForMainDevice(c)
    \/ createSessionManager(c)
    \/ SessionManager_init(c)

SpecAttach == InitReg /\ [][NextAttach]_vars

\* ------------------------------------ sendDelegateMessage (DelegateDevice)
\* a message handed to the SessionManager: its recipient and its pubkey field
Msg(to, pubkey) == [to |-> to, pubkey |-> pubkey]
Recipient(c) == CHOOSE to \in arg[c] : TRUE

\* sendDelegateMessage up to `await sm.sendMessage(recipientPublicKey, content)`:
\* it throws when there is no SessionManager or no owner key, which is when
\* the device holds no activated credentials
CallSendDelegateMessage(c) ==
  /\ Free(c) /\ copies[c] # "pending"
  /\ \E to \in {OwnerKey, PeerKey} :
       /\ op' = [op EXCEPT ![c] = "sendDel"]
       /\ arg' = [arg EXCEPT ![c] = {to}]
       /\ pc' = [pc EXCEPT ![c] = IF creds = "active" THEN "awSend" ELSE "done"]
       /\ ret' = [ret EXCEPT ![c] = IF creds = "active" THEN "none" ELSE "rejected"]
  /\ copies' = [copies EXCEPT ![c] = "none"]
  /\ UNCHANGED <<svcVars_noUi_noSend, uiVars, outbox, hnd, dm, gm, retMgr, fetched, pub,
                 regOk, fresh>>

\* the tail of sendDelegateMessage once sendMessage has produced a rumor:
\* the copy for the owner is started and not awaited, the rumor is returned
syncToOwner(c) ==
  IF Recipient(c) # OwnerKey
    THEN copies' = [copies EXCEPT ![c] = "pending"]
    ELSE UNCHANGED copies

SendProducedRumor(c) ==
  /\ outbox' = outbox \cup {Msg(Recipient(c), DeviceKey)}
  /\ syncToOwner(c)
  /\ pc' = [pc EXCEPT ![c] = "done"]
  /\ ret' = [ret EXCEPT ![c] = "rumor"]

SendThrows(c) ==
  /\ pc' = [pc EXCEPT ![c] = "done"]
  /\ ret' = [ret EXCEPT ![c] = "rejected"]
  /\ UNCHANGED <<outbox, copies>>

\* `await sm.sendMessage(...)` resumes: a rumor, null (no session) or an error
SendPrimary(c) ==
  /\ op[c] = "sendDel" /\ pc[c] = "awSend"
  /\ \/ SendProducedRumor(c)
     \/ pc' = [pc EXCEPT ![c] = "awInitiate"] /\ UNCHANGED <<ret, outbox, copies>>
     \/ SendThrows(c)
  /\ UNCHANGED <<svcVars_noUi_noSend, uiVars, op, arg, hnd, dm, gm, retMgr, fetched, pub,
                 regOk, fresh>>

\* `await initiateSessionFromDelegate(...)` resumes: initiated, or not
SendInitiated(c) ==
  /\ op[c] = "sendDel" /\ pc[c] = "awInitiate"
  /\ \/ pc' = [pc EXCEPT ![c] = "awRetry"] /\ UNCHANGED <<ret, outbox, copies>>
     \/ SendThrows(c)
  /\ UNCHANGED <<svcVars_noUi_noSend, uiVars, op, arg, hnd, dm, gm, retMgr, fetched, pub,
                 regOk, fresh>>

\* after the one-second wait, the second `await sm.sendMessage(...)` resumes
SendRetry(c) ==
  /\ op[c] = "sendDel" /\ pc[c] = "awRetry"
  /\ \/ SendProducedRumor(c)
     \/ SendThrows(c)
  /\ UNCHANGED <<svcVars_noUi_noSend, uiVars, op, arg, hnd, dm, gm, retMgr, fetched, pub,
                 regOk, fresh>>

\* the copy awaited and not caught: its failure becomes the caller's
CopySettles_Awaited(c) ==
  /\ copies[c] = "pending"
  /\ \/ /\ copies' = [copies EXCEPT ![c] = "sent"]
        /\ outbox' = outbox \cup {Msg(OwnerKey, OwnerKey)}
        /\ UNCHANGED ret
     \/ /\ copies' = [copies EXCEPT ![c] = "failed"]
        /\ ret' = [ret EXCEPT ![c] = "rejected"]
        /\ UNCHANGED outbox
  /\ UNCHANGED <<svcVars_noUi_noSend, uiVars, op, pc, arg, hnd, dm, gm, retMgr, fetched,
                 pub, regOk, fresh>>

\* sm.sendEvent(ownerPublicKey, normalizedRumor) settles: the copy is sent, or
\* the rejection is caught by .catch and logged
CopySettles(c) ==
  /\ copies[c] = "pending"
  /\ \/ /\ copies' = [copies EXCEPT ![c] = "sent"]
        /\ outbox' = outbox \cup {Msg(OwnerKey, OwnerKey)}
     \/ /\ copies' = [copies EXCEPT ![c] = "failed"]
        /\ UNCHANGED outbox
  /\ UNCHANGED <<svcVars_noUi_noSend, uiVars, callVars>>

NextDelegateSend ==
  \E c \in Callers :
    \/ CallSendDelegateMessage(c)
    \/ SendPrimary(c)
    \/ SendInitiated(c)
    \/ SendRetry(c)
    \/ CopySettles(c)

\* a device with or without activated delegate credentials
InitDelegateSend == Init /\ relay = {} /\ Plain /\ loggedIn /\ storeKey = NoKey

SpecDelegateSend == InitDelegateSend /\ [][NextDelegateSend]_vars

\* ------------------------------------------ handleDeleteDevice (DevicesTab)
\* the device the call is to revoke
Target(c) == CHOOSE d \in arg[c] : TRUE

\* handleDeleteDevice(d) once the user has confirmed, up to
\* `await getDeviceManager()`
CallHandleDeleteDevice(c) ==
  /\ Free(c)
  /\ \E d \in {StoredKey, Sibling} :
       \E h \in Handles : getDeviceManager(c, h) /\ Begin(c, "delete", "awDev", h, {d})
  /\ UNCHANGED <<envVars, delVars, devInstance, devObj, storeReg, sesVars,
                 relay, regOk, fresh>>

\* the handler over a revokeDevice that stamps on every call
handleDeleteDevice_Restamp(c) ==
  /\ StoreRegistry(hnd[c].id, revokeDevice_Restamp(RegOf(devObj[hnd[c].id]), Target(c)))
  /\ pub' = [pub EXCEPT ![c] = {revokeDevice_Restamp(RegOf(devObj[hnd[c].id]), Target(c))}]
  /\ pc' = [pc EXCEPT ![c] = "publish"]
  /\ dm' = [dm EXCEPT ![c] = hnd[c].id]
  /\ hnd' = [hnd EXCEPT ![c] = NoH]
  /\ UNCHANGED <<gm, ret>>

\* deviceManager.revokeDevice(identityPubkey), then publish() is called
handleDeleteDevice(c) ==
  /\ StoreRegistry(hnd[c].id, revokeDevice(RegOf(devObj[hnd[c].id]), Target(c)))
  /\ pub' = [pub EXCEPT ![c] = {revokeDevice(RegOf(devObj[hnd[c].id]), Target(c))}]
  /\ pc' = [pc EXCEPT ![c] = "publish"]
  /\ dm' = [dm EXCEPT ![c] = hnd[c].id]
  /\ hnd' = [hnd EXCEPT ![c] = NoH]
  /\ UNCHANGED <<gm, ret>>

DeleteRevoke(c) ==
  /\ op[c] = "delete" /\ pc[c] = "awDev"
  /\ DevSettled(hnd[c])
  /\ IF DevRejected(hnd[c])
       THEN Settle(c, "failed") /\ UNCHANGED <<devObj, storeReg, pub>>
       ELSE handleDeleteDevice(c)
  /\ UNCHANGED <<envVars, delVars, devInstance, devPromise, devTask, sesVars, relay,
                 op, arg, retMgr, fetched, regOk, fresh>>

\* `await deviceManager.publish()`: the relay holds the document, or the
\* error is caught and shown ("Failed to revoke device")
DeletePublish(c) ==
  /\ op[c] = "delete" /\ pc[c] = "publish"
  /\ \/ relay' = pub[c] /\ Settle(c, "ok")
     \/ Settle(c, "failed") /\ UNCHANGED relay
  /\ UNCHANGED <<envVars, delVars, devVars, sesVars, op, arg, retMgr, fetched, pub,
                 regOk, fresh>>

\* time passes
Tick ==
  /\ clock < MaxClock
  /\ clock' = clock + 1
  /\ UNCHANGED <<loggedIn, mgrVars, callVars, hk, store, groups, last, uiVars, readable,
                 sendVars, view, pchat, old>>

\* The devices screen of a main device: devices are revoked, also twice.
NextRevoke ==
  \/ Tick
  \/ \E c \in Callers :
       \/ CallHandleDeleteDevice(c)
       \/ DeleteRevoke(c)
       \/ DeletePublish(c)
       \/ initializeDeviceManager(c)
       \/ DeviceManager_init(c)

InitRevoke == InitReg /\ loggedIn /\ relay = {}

SpecRevoke == InitRevoke /\ [][NextRevoke]_vars

\* --------------------------- use of the SessionManager after a revocation
\* A main device on which the devices screen (caller 1) revokes the current
\* device while the callers obtain the SessionManager they send with
\* (`const sessionManager = await getSessionManager()`).
NextSend ==
  \E c \in Callers :
    \/ CallGetSessionManager(c)
    \/ ResolveGetSessionManager(c)
    \/ c = 1 /\ CallRevokeCurrentDevice(c)
    \/ AwaitDeviceManager(c)
    \/ RevokeCurrent(c)
    \/ createOrRestoreFromStorage(c)
    \/ DelegateManager_initLoad(c)
    \/ DelegateManager_initPersist(c)
    \/ initializeDeviceManager(c)
    \/ DeviceManager_init(c)
    \/ initializeForMainDevice(c)
    \/ createSessionManager(c)
    \/ SessionManager_init(c)

SpecSend == InitReg /\ [][NextSend]_vars

\* ====================================================== claims C1 .. C10
Resolved(c, o) == pc[c] = "done" /\ op[c] = o /\ ret[c] = "ok"
\* the run started on a main device whose store held no identity
FreshStore == creds = "none" /\ storeKey # StoredKey
\* the managers constructed (and init() calls made) by DelegateManagerService
Constructed == {c \in Callers : delTask[c] \notin {"idle", "credPut", "import"}}

\* C1: on a fresh store, concurrent getDelegateManager() calls construct one
\* DelegateManager, run init() once, persist at most one keypair (exactly
\* one, the manager's, once init() has returned), and every call resolves to
\* that one manager, hence to one identity public key.
C1_OneIdentity ==
  FreshStore =>
    /\ Cardinality(Constructed) <= 1
    /\ Cardinality(generated) <= 1
    /\ \A c \in Callers : Resolved(c, "getDel") =>
         /\ Constructed = {retMgr[c].id}
         /\ delObj[retMgr[c].id].key \in {NoKey, GenKey(retMgr[c].id)}
         /\ delTask[retMgr[c].id] = "resolved" =>
              /\ generated = {delObj[retMgr[c].id].key}
              /\ storeKey = delObj[retMgr[c].id].key
    /\ \A c1, c2 \in Callers :
         Resolved(c1, "getDel") /\ Resolved(c2, "getDel") => retMgr[c1].id = retMgr[c2].id

\* two concurrent calls have resolved, one keypair is persisted
C1_Witness ==
  /\ FreshStore
  /\ \E c1, c2 \in Callers :
       /\ c1 # c2
       /\ Resolved(c1, "getDel") /\ Resolved(c2, "getDel")
       /\ generated = {delObj[retMgr[c1].id].key}

\* C2: no get...() call resolves to a manager whose init() has not completed.
C2_SharedInit ==
  \A c \in Callers :
    (pc[c] = "done" /\ op[c] \in {"getDel", "getDev", "getSes"} /\ ret[c] = "ok")
      => retMgr[c].inited

\* the three-way check of the specification, with this device's own identity key
SelfOriginated(ev, peer, pk) == ev.pubkey = pk \/ ev.pubkey = DeviceKey \/ peer = pk
\* the listener of dmEventHandler.ts returned before looking at the event's tags
Filtered == hk \in {"main", "delegate"} /\ (last.pk = NoKey \/ last.peer \in mutedUsers)
\* what the listener did with a direct (no 'l' tag) event
DirectRouting ==
  IF last.ev.p = NoTag
    THEN last.stored = {}
    ELSE /\ Cardinality(last.stored) = 1
         /\ \A r \in last.stored :
              r.chat = (IF last.fromUs THEN last.ev.p ELSE last.peer) /\ r \in store

\* C3: on main and paired delegate devices alike, the listener takes an
\* event as self-originated exactly when event.pubkey is the owner's key, or
\* event.pubkey is this device's own identity key, or the session peer is
\* the owner's key.
C3_ThreeWay ==
  (last.seen /\ last.reached) =>
    (last.fromUs <=> SelfOriginated(last.ev, last.peer, last.pk))

IsRegPending(c) == op[c] = "isReg" /\ pc[c] # "done"
IsRegDone(c) == op[c] = "isReg" /\ pc[c] = "done"
\* the step on which the pending call c returns
Returns(c) == IsRegPending(c) /\ pc'[c] = "done"

\* C5: every isDeviceRegistered() call eventually returns, it returns true or
\* false and never rejects, and it returns false when a manager's
\* initialization failed or the remote check ended without the registry.
C5_AlwaysResolves ==
  /\ \A c \in Callers : IsRegPending(c) ~> IsRegDone(c)
  /\ [](\A c \in Callers : IsRegDone(c) => ret[c] \in {"true", "false"})
  /\ [][\A c \in Callers :
          (/\ Returns(c)
           /\ \/ pc[c] = "awDev"
              \/ pc[c] = "awDel" /\ DelRejected(hnd[c])
              \/ pc[c] = "waitFor")
            => ret'[c] = "false"]_vars

\* a call returned false after the remote check found nothing on the relay
C5_Witness ==
  \E c \in Callers : IsRegDone(c) /\ ret[c] = "false" /\ fetched[c] /\ relay = {}

\* C6: when the identity key of the resolved DelegateManager is among
\* getOwnDevices(), isDeviceRegistered() returns true on that step, without
\* having opened the remote check.
C6_FastPath ==
  [][\A c \in Callers :
       (/\ op[c] = "isReg" /\ pc[c] = "awDel" /\ pc'[c] # "awDel"
        /\ ~DelRejected(hnd[c])
        /\ getIdentityPublicKey(hnd[c].id) # NoKey
        /\ getIdentityPublicKey(hnd[c].id) \in getOwnDevices(dm[c]))
         => (pc'[c] = "done" /\ ret'[c] = "true" /\ ~fetched'[c])]_vars

\* a call returned true although a remote registry differing from the local
\* one was there to fetch
C6_Witness ==
  \E c \in Callers :
    /\ IsRegDone(c) /\ ret[c] = "true" /\ ~fetched[c]
    /\ relay # {} /\ storeReg \notin relay

C8_JoinKeepsSiblings ==
  \A c \in Callers :
    /\ (op[c] = "addExisting" /\ pc[c] = "publish") =>
         \E r \in arg[c] : \E p \in pub[c] :
           /\ pub[c] = {p}
           /\ r.active \cup {getIdentityPublicKey(gm[c])} \subseteq p.active
    /\ (op[c] = "addExisting" /\ pc[c] = "done" /\ ret[c] = "ok") =>
         \E r \in arg[c] : \E p \in pub[c] :
           /\ delInstance # 0
           /\ r.active \cup {getIdentityPublicKey(delInstance)} \subseteq p.active
    /\ (op[c] = "addExisting" /\ pc[c] \notin {"publish", "done"}) => pub[c] = {}

\* the join has published a registry holding the sibling and this device,
\* while the local registry had not known the sibling
C8_Witness ==
  \E c \in Callers :
    /\ op[c] = "addExisting" /\ pc[c] = "done" /\ ret[c] = "ok"
    /\ relay = pub[c]
    /\ \E p \in pub[c] : Sibling \in p.active /\ storeKey \in p.active

\* C9: for a user who started with no local and no remote registry data,
\* isDeviceRegistered() returns false as long as nothing was registered, and
\* once registerCurrentDevice() has completed the next call of the same
\* flow returns true from the local cache, without the remote check.
C9_FreshThenRegistered ==
  fresh =>
    /\ \A c \in Callers : (IsRegDone(c) /\ storeReg = EmptyReg) => ret[c] = "false"
    /\ (IsRegDone(1) /\ regOk) => (ret[1] = "true" /\ ~fetched[1])

\* registerCurrentDevice() completed and the next call returned true
C9_Witness == fresh /\ regOk /\ IsRegDone(1) /\ ret[1] = "true" /\ ~fetched[1]

\* C10: when setApplicationKeys(remote) has run in isDeviceRegistered or in
\* addDeviceToExistingList, no device that was revoked in the local or in the
\* remote registry is active in the local registry.
C10_RevokeWins ==
  [][\A c \in Callers :
       (op[c] \in {"isReg", "addExisting"} /\ pc[c] # "setKeys" /\ pc'[c] = "setKeys") =>
         \A r \in arg'[c] :
           \A d \in (devObj[dm[c]].revoked \cup r.revoked) :
             d \notin devObj'[dm[c]].active]_vars

\* ====================================================== claims C11 .. C20
\* this device's identity key is an active entry of the local registry
LocalHasSelf ==
  /\ delInstance # 0 /\ devInstance # 0
  /\ getIdentityPublicKey(delInstance) # NoKey
  /\ getIdentityPublicKey(delInstance) \in getOwnDevices(devInstance)

\* C11: isDeviceRegistered(), getSessionManager() and
\* attachSessionEventListener() never publish a registry document and never
\* put a device into the local registry other than by taking over the
\* relay's document or loading the stored one; while this device is not in
\* the local registry no SessionManager exists and no getSessionManager()
\* call resolves, and the registration check that finds the device missing
\* fails with the 'Device not registered' error.
C11_NoAutoRegistration ==
  /\ [][relay' = relay]_vars
  /\ [][storeReg' # storeReg => storeReg' \in relay]_vars
  /\ [][\A d \in Callers :
          RegOf(devObj'[d]) # RegOf(devObj[d]) => RegOf(devObj'[d]) \in relay \cup {storeReg}]_vars
  /\ [](~LocalHasSelf =>
          /\ sesInstance = 0
          /\ \A c \in Callers : ~(op[c] \in {"getSes", "attach"} /\ pc[c] = "done" /\ ret[c] = "ok"))
  /\ [][\A c \in Callers :
          (/\ sesTask[c] = "awBoth" /\ sesTask'[c] # "awBoth"
           /\ ~DevRejected(tdev[c]) /\ ~DelRejected(tdel[c])
           /\ getIdentityPublicKey(tdel[c].id) # NoKey
           /\ getIdentityPublicKey(tdel[c].id) \notin getOwnDevices(tdev[c].id))
            => (sesTask'[c] = "notRegistered" /\ sesInstance' = 0)]_vars

\* getSessionManager() was rejected as not registered on a device that holds
\* an identity, after isDeviceRegistered() had returned false
C11_Witness ==
  /\ storeKey # NoKey /\ ~LocalHasSelf
  /\ \E c \in Callers : op[c] = "getSes" /\ pc[c] = "done" /\ ret[c] = "rejected"
  /\ \E c \in Callers : sesTask[c] = "notRegistered"
  /\ \E c \in Callers : IsRegDone(c) /\ ret[c] = "false"

\* C12: whenever the hook is in checking_remote, it later reaches needs_link or
\* needs_new (by the relay's EOSE, or at the latest by the timeout of the
\* run), unless its effect is torn down first (unmount or another public key)
NeedsInit == hook.status \in {"needs_link", "needs_new"}

C12_CheckingResolves ==
  \A e \in 1..(MaxEffects + 1) :
    (hook.mounted /\ hook.epoch = e /\ hook.status = "checking_remote")
      ~> (NeedsInit \/ hook.epoch # e \/ ~hook.mounted)

\* the timeout of a run whose relay sent an event but no EOSE set needs_new
C12_Witness ==
  /\ hook.mounted /\ hook.status = "needs_new" /\ Len(runs) = 1
  /\ runs[1].eose /\ ~runs[1].timer /\ runs[1].found = 1 /\ ~runs[1].cancelled

\* C13: when the hook is in the offline state and the browser's 'online' event
\* fires, the hook re-runs the check and moves to checking_remote, or to ready
\* if the flag is set; it does not stay in offline
C13_OnlineRechecks ==
  [][(hook.mounted /\ hook.alive /\ hook.status = "offline"
        /\ ~hook.online /\ hook'.online)
       => hook'.status \in {"checking_remote", "ready"}]_vars

\* C14: once the effect of useDeviceList, of useDeviceRegistration or of
\* useChatInitState has been torn down, no subscription that effect opened is
\* open, also when the teardown came while the effect's setup was still running
C14_NoOpenAfterTeardown ==
  /\ dl.torn /\ dl.pc \in {"subscribed", "failed"} => ~dl.open
  /\ rl.torn => ~rl.open
  /\ \A r \in DOMAIN runs : runs[r].cancelled => ~runs[r].open

\* C15: when the key-value store cannot be read during the identity
\* initialization of a main device, getDelegateManager() fails: no call
\* resolves to a manager, and no new identity is generated or persisted
C15_ReadFailureSurfaces ==
  (~readable /\ creds = "none") =>
    /\ generated = {}
    /\ \A c \in Callers : delObj[c].key = NoKey
    /\ \A c \in Callers : ~Resolved(c, "getDel")

\* the local registry lists this device's own identity as revoked
SelfRevoked ==
  /\ delInstance # 0 /\ devInstance # 0
  /\ getIdentityPublicKey(delInstance) # NoKey
  /\ getIdentityPublicKey(delInstance) \in devObj[devInstance].revoked

\* C16: once the local registry shows the device's own identity as revoked, a
\* later attempt to send is not served by the SessionManager that was
\* initialized before the revocation: getSessionManager() does not hand out
\* that instance, so the attempt goes through the registration check again
C16_RevokedCannotSend ==
  [][\A c \in Callers :
       (SelfRevoked /\ Free(c) /\ op'[c] = "getSes" /\ pc'[c] = "awSes")
         => hnd'[c].k # "obj"]_vars

\* C17: every event the listener stores is stored with its pubkey rewritten
\* to the owner's key when it is self-originated, and unmodified otherwise
C17_NormalizedWhenOurs ==
  last.seen =>
    \A r \in last.stored :
      r.ev = IF SelfOriginated(last.ev, last.peer, last.pk)
               THEN [last.ev EXCEPT !.pubkey = last.pk]
               ELSE last.ev

\* the last event delivered to the listener of dmEventHandler.ts carried an
\* 'l' tag and was not a group creation event
GroupMessage(l) == l.seen /\ l.ev.l # NoTag /\ l.ev.kind = "message"
\* what that listener does with a group message
GroupRouting ==
  /\ last'.stored = {Upsert(last'.ev.l, last'.ev)}
  /\ last'.stored \subseteq store'
  /\ groups' = IF groups = "absent" THEN "placeholder" ELSE groups

\* C19: a non-creation event with an 'l' tag is always stored under the
\* group id, never under a peer id; a placeholder group is created when no
\* group with that id exists, and an existing group record is left unchanged.
C19_GroupRouting ==
  [][(hk' \in {"main", "delegate"} /\ GroupMessage(last')) => GroupRouting]_vars

\* C19 (amended): the same, for events the listener does not filter out; an
\* event from a muted session peer, or one arriving while no owner key is
\* set, is dropped and no group is created for it.
C19_GroupRoutingUnlessFiltered ==
  [][(hk' \in {"main", "delegate"} /\ GroupMessage(last')) =>
       IF last'.pk = NoKey \/ last'.peer \in mutedUsers
         THEN last'.stored = {} /\ (last' # last => UNCHANGED <<store, groups>>)
         ELSE GroupRouting]_vars

\* a group message for an unknown group was stored under the group id and a
\* placeholder group exists
C19_Witness ==
  /\ hk \in {"main", "delegate"} /\ GroupMessage(last)
  /\ last.pk # NoKey /\ last.peer \notin mutedUsers
  /\ groups = "placeholder"
  /\ Upsert(GroupId, last.ev) \in store

SendReturned(c) == op[c] = "sendDel" /\ pc[c] = "done" /\ ret[c] = "rumor"

\* C18: when sendDelegateMessage has a rumor from the primary send, the copy
\* with the owner's pubkey goes to the owner exactly when the recipient is not
\* the owner; the call returns the rumor while the copy is still pending, and
\* a failed copy leaves the call returned with the rumor.
C18_CopyBestEffort ==
  /\ [](\A c \in Callers :
         /\ SendReturned(c) =>
              /\ Msg(Recipient(c), DeviceKey) \in outbox
              /\ copies[c] # "none" <=> Recipient(c) # OwnerKey
         /\ copies[c] # "none" => SendReturned(c)
         /\ copies[c] = "sent" => Msg(OwnerKey, OwnerKey) \in outbox)
  /\ [][\A c \in Callers :
          (pc[c] # "done" /\ SendReturned(c)' /\ Recipient(c)' # OwnerKey)
            => copies'[c] = "pending"]_vars

\* the copy to the owner failed and the call has returned the rumor
C18_Witness ==
  \E c \in Callers :
    SendReturned(c) /\ Recipient(c) = PeerKey /\ copies[c] = "failed"

DeviceInfo(k, cur, removed, stale) ==
  [id |-> k, isCurrent |-> cur, isRemoved |-> removed, stale |-> stale]
\* the identity keys a session record can be held for
ListedKeys == {StoredKey, Sibling} \cup {GenKey(c) : c \in Callers}

\* deviceUtils.buildDeviceList(inviteList, currentId): the active devices
buildDeviceList_utils(r, currentId) ==
  {DeviceInfo(k, k = currentId, FALSE, FALSE) : k \in r.active}
\* DevicesTab buildDeviceList(inviteList, currentId): the active devices, then
\* the removed ones
buildDeviceList_tab(r, currentId) ==
  {DeviceInfo(k, k = currentId, FALSE, FALSE) : k \in r.active}
    \cup {DeviceInfo(k, k = currentId, TRUE, FALSE) : k \in r.revoked}
\* ChatSettings buildDeviceList(manager): the own devices of the registry, then
\* the session records with a staleAt that are not among them
buildDeviceList_settings(own, staleRecs, currentDeviceId) ==
  {DeviceInfo(k, k = currentDeviceId, FALSE, FALSE) : k \in own}
    \cup {DeviceInfo(k, FALSE, FALSE, TRUE) : k \in staleRecs \ own}

\* DeviceCard: the "Revoke device" button is rendered
DeviceCard(device, onDelete) == ~device.isCurrent /\ onDelete
\* DeviceList: "This Device" gets no onDelete, "Other Devices" get it
DeviceList(devices, device) ==
  \/ device.isCurrent /\ DeviceCard(device, FALSE)
  \/ device \in {d \in devices : ~d.isCurrent} /\ DeviceCard(device, TRUE)
\* DevicesTab renderDeviceCard without the test of isCurrent
renderDeviceCard_NoCurrent(device) == ~device.isRemoved

\* DevicesTab renderDeviceCard: the delete button is rendered
renderDeviceCard(device) == ~device.isCurrent /\ ~device.isRemoved
\* ChatSettings renderDeviceItem: the delete button is rendered
renderDeviceItem(device, editingDeviceId) ==
  /\ ~(editingDeviceId = device.id) /\ ~device.stale
  /\ ~device.isCurrent

\* the entry of the screen shown offers the revoke action
Offers(v, d) ==
  \/ v.screen = "list" /\ DeviceList(v.devices, d)
  \/ v.screen = "tab" /\ renderDeviceCard(d)
  \/ v.screen = "settings" /\ renderDeviceItem(d, v.editing)

\* the managers both screens await have been resolved
ManagersReady == delInstance # 0 /\ devInstance # 0
\* the documents a list is built from: the local registry at setup, the
\* relay's document when the subscription delivers it
Lists == {RegOf(devObj[devInstance])} \cup relay

\* useDeviceList: setDevices(buildDeviceList(list, deviceId))
DeviceList_setDevices ==
  /\ ManagersReady
  /\ \E r \in Lists :
       view' = [screen |-> "list", deviceId |-> getIdentityPublicKey(delInstance),
                devices |-> buildDeviceList_utils(r, getIdentityPublicKey(delInstance)),
                list |-> r, editing |-> NoKey]
  /\ UNCHANGED <<loggedIn, mgrVars, callVars, hk, store, groups, last, uiVars, readable,
                 sendVars, clock, pchat, old>>

\* DevicesTab: setDevices(buildDeviceList(list, deviceId))
DevicesTab_setDevices ==
  /\ ManagersReady
  /\ \E r \in Lists :
       view' = [screen |-> "tab", deviceId |-> getIdentityPublicKey(delInstance),
                devices |-> buildDeviceList_tab(r, getIdentityPublicKey(delInstance)),
                list |-> r, editing |-> NoKey]
  /\ UNCHANGED <<loggedIn, mgrVars, callVars, hk, store, groups, last, uiVars, readable,
                 sendVars, clock, pchat, old>>

\* ChatSettings refreshDeviceList(manager); which session records carry a
\* staleAt is an input
refreshDeviceList ==
  /\ ManagersReady
  /\ \E staleRecs \in SUBSET ListedKeys :
       view' = [screen |-> "settings", deviceId |-> getIdentityPublicKey(delInstance),
                devices |-> buildDeviceList_settings(getOwnDevices(devInstance), staleRecs,
                                                     getIdentityPublicKey(delInstance)),
                list |-> RegOf(devObj[devInstance]), editing |-> view.editing]
  /\ UNCHANGED <<loggedIn, mgrVars, callVars, hk, store, groups, last, uiVars, readable,
                 sendVars, clock, pchat, old>>

\* ChatSettings: the edit button of an entry (setEditingDeviceId(device.id)),
\* and save or cancel (setEditingDeviceId(null))
setEditingDeviceId ==
  /\ view.screen = "settings"
  /\ \E k \in {d.id : d \in {e \in view.devices : ~e.stale}} \cup {NoKey} :
       /\ k # view.editing
       /\ view' = [view EXCEPT !.editing = k]
  /\ UNCHANGED <<loggedIn, mgrVars, callVars, hk, store, groups, last, uiVars, readable,
                 sendVars, clock, pchat, old>>

\* The device list screens of a main device over the two managers they await.
NextViews ==
  \/ DeviceList_setDevices
  \/ DevicesTab_setDevices
  \/ refreshDeviceList
  \/ setEditingDeviceId
  \/ \E c \in Callers :
       \/ CallGetDelegateManager(c)
       \/ ResolveGetDelegateManager(c)
       \/ CallGetDeviceManager(c)
       \/ ResolveGetDeviceManager(c)
       \/ createOrRestoreFromStorage(c)
       \/ DelegateManager_initLoad(c)
       \/ DelegateManager_initPersist(c)
       \/ initializeDeviceManager(c)
       \/ DeviceManager_init(c)

SpecViews == InitReg /\ [][NextViews]_vars

\* ----------------------------- useDeviceRegistration (confirmation dialog)
\* getDevicesToPublish(): the identities the confirmation dialog lists
getDevicesToPublish(pendingAction, currentDeviceId, remoteInviteList) ==
  IF pendingAction = "start"
    THEN IF currentDeviceId # NoKey THEN {currentDeviceId} ELSE {}
    ELSE IF pendingAction = "add" /\ remoteInviteList # {}
      THEN UNION {r.active : r \in remoteInviteList}
             \cup (IF currentDeviceId # NoKey THEN {currentDeviceId} ELSE {})
      ELSE {}
\* pendingAction of the handleConfirmPublish that runs operation o
pendingAction(o) == IF o = "register" THEN "start" ELSE "add"

\* ------------------------------------ PrivateChats.ts getDelegateManager
\* getDelegateManager() up to `await delegateStorage.get(DELEGATE_PUBKEY_KEY)`:
\* the instance if there is one
PrivateChats_getDelegateManager(c) ==
  /\ pchat.call[c].pc = "idle"
  /\ pchat' = IF pchat.instance # NoKey
                THEN [pchat EXCEPT !.call[c].pc = "done", !.call[c].key = pchat.instance]
                ELSE [pchat EXCEPT !.call[c].pc = "getPubkey"]
  /\ UNCHANGED <<loggedIn, mgrVars, callVars, hk, store, groups, last, uiVars, readable,
                 sendVars, clock, view, old>>

\* the first get resumes with the stored public key; the second get is called
PrivateChats_storedPubkey(c) ==
  /\ pchat.call[c].pc = "getPubkey"
  /\ pchat' = [pchat EXCEPT !.call[c].pc = "getPrivkey",
                            !.call[c].storedPubkey = pchat.pub]
  /\ UNCHANGED <<loggedIn, mgrVars, callVars, hk, store, groups, last, uiVars, readable,
                 sendVars, clock, view, old>>

\* the second get resumes: with both keys the identity is restored, else
\* DelegateManager.create() generates one and the first put is called
PrivateChats_storedPrivkey(c) ==
  /\ pchat.call[c].pc = "getPrivkey"
  /\ pchat' = IF pchat.call[c].storedPubkey # NoKey /\ pchat.priv # NoKey
                THEN [pchat EXCEPT !.call[c].pc = "done",
                                   !.call[c].storedPrivkey = pchat.priv,
                                   !.call[c].key = pchat.call[c].storedPubkey,
                                   !.instance = pchat.call[c].storedPubkey]
                ELSE [pchat EXCEPT !.call[c].pc = "putPubkey",
                                   !.call[c].storedPrivkey = pchat.priv,
                                   !.call[c].key = GenKey(c),
                                   !.made = @ \cup {GenKey(c)},
                                   !.pub = GenKey(c)]
  /\ UNCHANGED <<loggedIn, mgrVars, callVars, hk, store, groups, last, uiVars, readable,
                 sendVars, clock, view, old>>

\* the first put resumes; the second put is called
PrivateChats_putPrivkey(c) ==
  /\ pchat.call[c].pc = "putPubkey"
  /\ pchat' = [pchat EXCEPT !.call[c].pc = "putPrivkey", !.priv = pchat.call[c].key]
  /\ UNCHANGED <<loggedIn, mgrVars, callVars, hk, store, groups, last, uiVars, readable,
                 sendVars, clock, view, old>>

\* the second put resumes: delegateManagerInstance = DelegateManager.restore(...)
PrivateChats_restore(c) ==
  /\ pchat.call[c].pc = "putPrivkey"
  /\ pchat' = [pchat EXCEPT !.call[c].pc = "done", !.instance = pchat.call[c].key]
  /\ UNCHANGED <<loggedIn, mgrVars, callVars, hk, store, groups, last, uiVars, readable,
                 sendVars, clock, view, old>>

\* the caller is done with the manager and may call again
PrivateChats_return(c) ==
  /\ pchat.call[c].pc = "done"
  /\ pchat' = [pchat EXCEPT !.call[c] = NoCall]
  /\ UNCHANGED <<loggedIn, mgrVars, callVars, hk, store, groups, last, uiVars, readable,
                 sendVars, clock, view, old>>

\* initializeManagers() and revokeCurrentDevice() call getDelegateManager()
\* independently of each other
NextPrivateChats ==
  \E c \in Callers :
    \/ PrivateChats_getDelegateManager(c)
    \/ PrivateChats_storedPubkey(c)
    \/ PrivateChats_storedPrivkey(c)
    \/ PrivateChats_putPrivkey(c)
    \/ PrivateChats_restore(c)
    \/ PrivateChats_return(c)

SpecPrivateChats == InitReg /\ [][NextPrivateChats]_vars

\* ------------------------- the devices screen and the session manager
\* A logged-in main device: getSessionManager() is called (by the listeners
\* and hooks) while the devices screen registers the device.
NextRetry ==
  \E c \in Callers :
    \/ CallGetSessionManager(c)
    \/ ResolveGetSessionManager(c)
    \/ c = 1 /\ CallRegisterCurrentDevice(c)
    \/ c = 1 /\ CallAddDeviceToExistingList(c)
    \/ AwaitDeviceManager(c)
    \/ RegisterAdd(c)
    \/ AddExistingSet(c)
    \/ AddExistingAdd(c)
    \/ Publish(c)
    \/ createOrRestoreFromStorage(c)
    \/ DelegateManager_initLoad(c)
    \/ DelegateManager_initPersist(c)
    \/ initializeDeviceManager(c)
    \/ DeviceManager_init(c)
    \/ initializeForMainDevice(c)
    \/ createSessionManager(c)
    \/ SessionManager_init(c)

InitRetry == InitReg /\ loggedIn

SpecRetry == InitRetry /\ [][NextRetry]_vars

\* ------------------------------------------------ reset...Manager()
\* resetDeviceManager(): close and drop the instance, drop the promise
resetDeviceManager ==
  /\ old.n < MaxResets
  /\ devInstance' = 0 /\ devPromise' = 0
  /\ old' = [old EXCEPT !.dev = {c \in Callers : devTask[c] # "idle"}, !.n = @ + 1]
  /\ UNCHANGED <<devTask, devObj, storeReg>>
  /\ UNCHANGED <<loggedIn, creds, delVars, sesVars, relay, callVars, hk, store, groups, last,
                 uiVars, readable, sendVars, clock, view, pchat>>

\* resetDelegateManager()
resetDelegateManager ==
  /\ old.n < MaxResets
  /\ delInstance' = 0 /\ delPromise' = 0
  /\ old' = [old EXCEPT !.del = {c \in Callers : delTask[c] # "idle"}, !.n = @ + 1]
  /\ UNCHANGED <<storeKey, generated, delTask, delObj>>
  /\ UNCHANGED <<loggedIn, creds, devVars, sesVars, relay, callVars, hk, store, groups, last,
                 uiVars, readable, sendVars, clock, view, pchat>>

\* resetSessionManager()
resetSessionManager ==
  /\ old.n < MaxResets
  /\ sesInstance' = 0 /\ sesPromise' = 0
  /\ old' = [old EXCEPT !.ses = {c \in Callers : sesTask[c] # "idle"}, !.n = @ + 1]
  /\ UNCHANGED <<sesTask, sesInited, tdev, tdel>>
  /\ UNCHANGED <<loggedIn, creds, delVars, devVars, relay, callVars, hk, store, groups, last,
                 uiVars, readable, sendVars, clock, view, pchat>>

\* a call by c starts no second initialization in the slot of a task c started
SlotDev(c) == devInstance # 0 \/ devPromise # 0 \/ devTask[c] = "idle"
SlotDel(c) == delInstance # 0 \/ delPromise # 0 \/ delTask[c] = "idle"
SlotSes(c) == sesInstance # 0 \/ sesPromise # 0 \/ sesTask[c] = "idle"

\* The three services of a main device under get...() calls and resets.
NextReset ==
  \/ resetDeviceManager
  \/ resetDelegateManager
  \/ resetSessionManager
  \/ \E c \in Callers :
       \/ SlotDel(c) /\ CallGetDelegateManager(c)
       \/ ResolveGetDelegateManager(c)
       \/ SlotDev(c) /\ CallGetDeviceManager(c)
       \/ ResolveGetDeviceManager(c)
       \/ SlotSes(c) /\ SlotDev(c) /\ SlotDel(c) /\ CallGetSessionManager(c)
       \/ ResolveGetSessionManager(c)
       \/ createOrRestoreFromStorage(c)
       \/ DelegateManager_initLoad(c)
       \/ DelegateManager_initPersist(c)
       \/ initializeDeviceManager(c)
       \/ DeviceManager_init(c)
       \/ initializeForMainDevice(c)
       \/ createSessionManager(c)
       \/ SessionManager_init(c)

InitReset == InitReg /\ loggedIn /\ relay = {}

SpecReset == InitReset /\ [][NextReset]_vars

\* ------------------------------------- cleanupSessionEventListener
\* unsubscribeSessionEvents?.(): the listener that is attached is removed
cleanupSessionEventListener ==
  /\ old.n < MaxResets
  /\ hk' = "none"
  /\ old' = [old EXCEPT !.att = {c \in Callers : op[c] = "attach" /\ pc[c] = "awSes"},
                        !.n = @ + 1]
  /\ UNCHANGED <<loggedIn, mgrVars, callVars, store, groups, last, uiVars, readable,
                 sendVars, clock, view, pchat>>

\* The listener of a main device is attached and cleaned up; a caller whose
\* attach was waiting at the cleanup starts no further attach.
NextCleanup ==
  \/ cleanupSessionEventListener
  \/ NextAttach /\ \A c \in old.att : ~(Free(c) /\ pc'[c] = "awSes")

SpecCleanup == InitReg /\ [][NextCleanup]_vars

\* ====================================================== claims C21 .. C30
\* C21: a mounted hook reports ready for the owner U exactly when the flag
\* chat-initialized:U is set: ready is never reported for an owner whose flag
\* is not set, setReady persists the flag of the owner it makes ready, and a
\* mount for an owner whose flag is set goes to ready, not to checking_remote.
C21_ReadyIffFlag ==
  /\ [](hook.mounted /\ hook.status = "ready" => hook.key \in hook.flagged)
  /\ [][(~hook.mounted /\ hook'.mounted /\ hook'.key \in hook.flagged)
          => hook'.status = "ready"]_vars

C23_PublishesListed ==
  [][\A c \in Callers :
       (/\ op[c] \in {"register", "addExisting"}
        /\ pc[c] = "publish" /\ pc'[c] = "done" /\ ret'[c] = "ok")
         => \A r \in relay' :
              r.active = getDevicesToPublish(pendingAction(op[c]),
                                             getIdentityPublicKey(gm[c]), arg[c])]_vars

\* C24: when revokeCurrentDevice() resolves for a logged-in owner whose
\* registry held the current device, the registry document on the relay lists
\* the current device as revoked.
C24_RevokePublished ==
  [][\A c \in Callers :
       (/\ op[c] = "revokeCur" /\ pc[c] = "awDel"
        /\ pc'[c] = "done" /\ ret'[c] = "ok"
        /\ getIdentityPublicKey(hnd[c].id) \in devObj[dm[c]].active)
         => \E r \in relay' : getIdentityPublicKey(hnd[c].id) \in r.revoked]_vars

\* C25: concurrent calls of PrivateChats.getDelegateManager() generate at
\* most one identity: on a store with no keys two calls do not generate two.
C25_OneGenerated == Cardinality(pchat.made) <= 1

\* C26: a failed initialization is not sticky: once registerCurrentDevice() or
\* addDeviceToExistingList() has succeeded, a new getSessionManager() call
\* does not get the promise that was rejected because the device was not
\* registered.
C26_FailureNotSticky ==
  [][\A c \in Callers :
       (/\ Free(c) /\ op'[c] = "getSes" /\ pc'[c] = "awSes"
        /\ \E r \in Callers : /\ op[r] \in {"register", "addExisting"}
                              /\ pc[r] = "done" /\ ret[r] = "ok")
         => ~(hnd'[c].k = "task" /\ sesTask'[hnd'[c].id] = "notRegistered")]_vars

\* C27: a get...() call made after reset...Manager() is not answered with a
\* manager, or the promise of one, whose initialization began before the
\* reset, even if that initialization was in flight at the reset.
C27_ResetForgets ==
  [][\A c \in Callers :
       Free(c) =>
         /\ (op'[c] = "getDev" /\ pc'[c] = "awDev") => hnd'[c].id \notin old.dev
         /\ (op'[c] = "getDel" /\ pc'[c] = "awDel") => hnd'[c].id \notin old.del
         /\ (op'[c] = "getSes" /\ pc'[c] = "awSes") => hnd'[c].id \notin old.ses]_vars

\* the identity key an isDeviceRegistered() call compares with
CheckedKey(c) ==
  IF pc[c] = "awDel" THEN getIdentityPublicKey(hnd[c].id) ELSE getIdentityPublicKey(gm[c])

\* C28: on an installation that started with no local and no remote data,
\* whenever isDeviceRegistered() resolves true the device is an active entry
\* of the registry document the relay holds (fetched from it or successfully
\* published to it); a registerCurrentDevice() whose publish() failed does
\* not make a later isDeviceRegistered() true.
C28_TrueMeansPublished ==
  [][\A c \in Callers :
       (/\ fresh /\ op[c] = "isReg"
        /\ pc[c] \in {"awDel", "setKeys"} /\ pc'[c] = "done" /\ ret'[c] = "true")
         => \E r \in relay : CheckedKey(c) \in r.active]_vars

\* the step is the timeout callback of check r / the EOSE callback of check r
TimeoutStep(r) == runs[r].timer /\ ~runs'[r].timer
EoseStep(r) ==
  /\ runs[r].open /\ ~runs'[r].open
  /\ \A i \in DOMAIN runs : runs'[i].timer = runs[i].timer
  /\ hook'.mounted = hook.mounted /\ hook'.epoch = hook.epoch
\* check r has set the state, or its effect has been torn down
Over(r) == runs[r].eose \/ runs[r].cancelled

\* C29: one remote check sets the state once: an EOSE that comes first gives
\* needs_link (an event was seen) or needs_new, a timeout that comes first
\* gives needs_new and stops the check's subscription; the callback that
\* comes second, and any callback after the teardown, changes nothing.
C29_LeavesOnce ==
  [][\A r \in DOMAIN runs :
       /\ (EoseStep(r) /\ ~Over(r)) =>
            /\ hook'.status = IF runs[r].found > 0 THEN "needs_link" ELSE "needs_new"
            /\ runs'[r].eose
       /\ (TimeoutStep(r) /\ ~Over(r)) =>
            /\ hook'.status = "needs_new"
            /\ runs'[r].eose /\ ~runs'[r].open
       /\ ((EoseStep(r) \/ TimeoutStep(r)) /\ Over(r)) => hook' = hook]_vars

\* C30: an attachSessionEventListener() call that was waiting for
\* getSessionManager() when cleanupSessionEventListener() ran installs no
\* listener when it resumes.
C30_NoListenerAfterCleanup ==
  [][\A c \in old.att :
       (op[c] = "attach" /\ pc[c] = "awSes" /\ pc'[c] = "done") => hk' = hk]_vars
====
